---- MODULE Spec2Model ----
(***************************************************************************)
(* Model of the paragraph translation pipeline of Simple-reader:           *)
(* translateTextByParagraph (batch planner, per-batch retry loop and the   *)
(* concurrency window) of src/scripts/models/services/aiClient.ts.         *)
(*                                                                         *)
(* Texts are sequences of symbols (the characters of a paragraph, the      *)
(* words of a reply or of an error message); the empty string is <<>>.     *)
(* JavaScript runs each synchronous section to completion: while the main  *)
(* function is between two awaits (mainPc "for" or "while") no other       *)
(* action is enabled.                                                      *)
(***************************************************************************)
EXTENDS Integers, Sequences, FiniteSets, TLC

\* ------------------------------------------------------------------ bounds
\* Largest number of paragraphs of a modelled run of the executor.
MaxParagraphs == 2
\* Largest configured values of a modelled run (0 stands for "not set").
MaxConcurrencyCfg == 2
MaxCountCfg == 2
\* Planner inputs (SpecPlan): list length, text length, the two limits.
PlanMaxParagraphs == 4
PlanMaxLen == 3
PlanMaxCount == 3
PlanMaxChars == 4
\* the matcher: cached lists and fragment lists of up to MatchMaxFragments texts
MatchMaxFragments == 2
\* the cache store: the clock runs over MaxClockDays days (and one millisecond
\* past each)
MaxClockDays == 1
\* at most MaxWriteFailures writes of the backing file fail
MaxWriteFailures == 1
\* calculateTextSimilarity alone: short texts of up to SimMaxLen characters
SimMaxLen == 3
\* ArticleAIHandler: at most MaxRuns calls of translateArticle, on pages of up
\* to HandlerMaxFragments fragments
MaxRuns == 2
HandlerMaxFragments == 2

\* ------------------------------------------------------- program constants
DefaultMaxBatchSize == 1
DefaultMaxTextLen == 1500
DefaultConcurrency == 5
maxRetries == 20
BackoffBaseMs == 1000
BackoffCapMs == 10000
BackoffFactorNum == 3
BackoffFactorDen == 2
DayMs == 86400000
SimilarityWindow == 100
MatchThresholdPercent == 35

VARIABLES
    paragraphs,      \* the input list of texts
    config,          \* AiConfig: the three numeric options, 0 = not set
    signalAborted,   \* signal.aborted
    mainPc,          \* position of translateTextByParagraph
    results,         \* the results array
    batches,         \* the batch plan
    nextBatch,       \* position of the for loop over the batches (1-based)
    activePromises,  \* the activePromises array, promises named by batch number
    task,            \* state of processBatch(batch) per batch
    awaitState,      \* state of the promise the main function awaits
    accepted,        \* history: translatedTexts of the attempt that passed validation
    abortPhase,      \* history: when abort() was called
    lastReturn,      \* history: what translateBatch returned in the last step
    notified,        \* the texts onParagraphTranslated was called with, per index
    aiConfigs,       \* the AI settings window.settings.getAIConfigs() returns
    cacheFilePath,   \* aiCache: the path of the backing file, NoPath before initDB
    cacheData,       \* aiCache: the in-memory map itemId -> entry
    cacheFile,       \* the backing file ai-cache.json
    writeFailures,   \* the number of writes of the file that have failed
    now,             \* Date.now()
    aiTranslation,   \* ArticleAIHandler: state.aiTranslation, the cached pairs
    pageTexts,       \* the fragment texts getMarkParagraphsScript returns
    injectPc,        \* position of injectCachedTranslations
    inserted,        \* the getInsertTranslationScript calls made, in order
    globalBlock,     \* the text given to getAppendGlobalTranslationScript
    simText1,        \* calculateTextSimilarity: the argument text1
    simText2,        \* calculateTextSimilarity: the argument text2
    simScore,        \* calculateTextSimilarity: the value returned
    currentItem,     \* ArticleAIHandler: String(this.getItem()._id), the item shown
    unmounted,       \* Article: this.unmounted
    translationAbort,   \* this.translationAbort of the handler in use: a controller, 0 if none
    abortedControllers, \* the controllers abort() was called on
    titleTranslation,   \* state.titleTranslation
    translationLoading, \* state.translationLoading
    translationRunId,   \* state.translationRunId
    runs,            \* the calls of translateArticle, by controller
    saveCall         \* the call of saveAITranslation or saveTitleTranslation made by the last step

\* The variables of the translation run.
runVars == <<paragraphs, config, signalAborted, mainPc, results, batches, nextBatch,
             activePromises, task, awaitState, accepted, abortPhase, lastReturn,
             notified>>

\* The variables of the other components.
cacheVars == <<cacheFilePath, cacheData, cacheFile, writeFailures, now>>

matchVars == <<aiTranslation, pageTexts, injectPc, inserted, globalBlock,
               simText1, simText2, simScore>>

handlerVars == <<currentItem, unmounted, translationAbort, abortedControllers, titleTranslation,
                 translationLoading, translationRunId, runs, saveCall>>

otherVars == <<aiConfigs, cacheVars, matchVars, handlerVars>>

vars == <<runVars, otherVars>>

\* ------------------------------------------------------------------- texts
EmptyStr == <<>>

\* p.length
StrLen(t) == Len(t)

\* Lower-casing of a word, as done by the /i flag of the marker pattern.
Lower(tok) ==
    CASE tok = "Translation" -> "translation"
      [] tok = "Failed" -> "failed"
      [] tok = "FAILED" -> "failed"
      [] OTHER -> tok

\* The failure-marker pattern, /(?:\[\s*FYSB\s*\]|FYSB|translation\s*failed)/i.test(t),
\* where the word "FYSB" stands for the four Chinese characters of the source
\* pattern ("translation failed"); words are separated by white space.
IsFailureMarker(t) ==
    \E i \in 1..Len(t) :
        \/ t[i] \in {"FYSB", "[FYSB]"}
        \/ i < Len(t) /\ Lower(t[i]) = "translation" /\ Lower(t[i + 1]) = "failed"

\* message.includes("Abort"), case sensitive
IncludesAbort(msg) == \E i \in 1..Len(msg) : msg[i] \in {"Abort", "Aborted"}

\* Error objects: name and message.
AbortError == [name |-> "AbortError", message |-> <<"The", "operation", "was", "aborted">>]

\* new Error("Content verification failed: " + t)
ContentError(t) == [name |-> "Error", message |-> <<"Content", "verification", "failed:">> \o t]

\* Errors of a completion call that are not caused by the signal: fetch
\* rejecting, or a non-ok HTTP status whose body is put into the message.
TransportErrors ==
    { [name |-> "TypeError", message |-> <<"Failed", "to", "fetch">>],
      [name |-> "Error", message |-> <<"Chat", "completion", "failed:", "499", "Request", "Aborted">>] }

\* Mutant: no error is taken for a cancellation.
IsAbortClassified_Never(err) == FALSE

\* err.name === "AbortError" || err.message?.includes("Abort")
IsAbortClassified(err) == err.name = "AbortError" \/ IncludesAbort(err.message)

\* The translation the service produces for the text p.
Tr(p) == <<"tr">> \o p

\* Texts a completion call for the text p can return: its translation, or a
\* text that carries the failure marker (with or without the word "Aborted").
ReplyTexts(p) ==
    { Tr(p),
      <<"Translation", "Failed">>,
      <<"translation", "failed", "Aborted">> }

\* Parsed outcome of the structured (JSON array) request for texts: an array
\* with one string per text, an array that is one string short, a JSON value
\* that is no array, or a response JSON.parse rejects.
ArraysFor(texts, n) == { its \in [1..n -> UNION { ReplyTexts(texts[k]) : k \in 1..n }] :
                           \A k \in 1..n : its[k] \in ReplyTexts(texts[k]) }
StructuredResponses(texts) ==
    { [kind |-> "array", items |-> its] :
         its \in ArraysFor(texts, Len(texts)) \cup ArraysFor(texts, Len(texts) - 1) }
        \cup { [kind |-> "object", items |-> <<>>], [kind |-> "unparseable", items |-> <<>>] }

\* ----------------------------------------------------------- configuration
\* v || d
OrDefault(v, d) == IF v = 0 THEN d ELSE v

maxBatchSize == OrDefault(config.maxParagraphsPerRequest, DefaultMaxBatchSize)
maxTextLen == OrDefault(config.maxTextLengthPerRequest, DefaultMaxTextLen)
concurrency == OrDefault(config.concurrency, DefaultConcurrency)

\* The numeric options of DEFAULT_AI_CONFIGS.
DEFAULT_AI_CONFIGS ==
    [maxParagraphsPerRequest |-> DefaultMaxBatchSize,
     maxTextLengthPerRequest |-> DefaultMaxTextLen,
     concurrency |-> DefaultConcurrency]

\* get-ai-configs: { ...DEFAULT_AI_CONFIGS, ...saved }, 0 = not in saved
GetAIConfigs(saved) ==
    [f \in DOMAIN DEFAULT_AI_CONFIGS |-> OrDefault(saved[f], DEFAULT_AI_CONFIGS[f])]

\* The config object translateParagraphs hands to translateTextByParagraph:
\* { baseUrl, apiKey, defaultModel }, so none of the numeric options is set.
TranslateParagraphsConfig(cfg) ==
    [maxParagraphsPerRequest |-> 0, maxTextLengthPerRequest |-> 0, concurrency |-> 0]

\* Mutant: the signal is never seen as aborted.
Aborted_Ignored == FALSE

\* signal?.aborted
Aborted == signalAborted

\* ------------------------------------------------------------ batch planner
EmptyBatch == [indices |-> <<>>, texts |-> <<>>]

\* Mutant: the count test of the planner is off by one (> for >=).
PlanStep_CountOffByOne(st, i, p, mbs, mtl) ==
    LET len == StrLen(p)
        flush == /\ Len(st.currentBatch.indices) > 0
                 /\ \/ Len(st.currentBatch.indices) > mbs
                    \/ st.currentBatchLen + len > mtl
        base == IF flush
                    THEN [batches |-> Append(st.batches, st.currentBatch),
                          currentBatch |-> [indices |-> <<>>, texts |-> <<>>],
                          currentBatchLen |-> 0]
                    ELSE st
    IN  [batches |-> base.batches,
         currentBatch |-> [indices |-> Append(base.currentBatch.indices, i),
                           texts |-> Append(base.currentBatch.texts, p)],
         currentBatchLen |-> base.currentBatchLen + len]

\* One iteration of the planning loop for paragraph p with 0-based index i.
PlanStep(st, i, p, mbs, mtl) ==
    LET len == StrLen(p)
        flush == /\ Len(st.currentBatch.indices) > 0
                 /\ \/ Len(st.currentBatch.indices) >= mbs
                    \/ st.currentBatchLen + len > mtl
        base == IF flush
                    THEN [batches |-> Append(st.batches, st.currentBatch),
                          currentBatch |-> EmptyBatch,
                          currentBatchLen |-> 0]
                    ELSE st
    IN  [batches |-> base.batches,
         currentBatch |-> [indices |-> Append(base.currentBatch.indices, i),
                           texts |-> Append(base.currentBatch.texts, p)],
         currentBatchLen |-> base.currentBatchLen + len]

RECURSIVE PlanLoop(_, _, _, _, _)
PlanLoop(ps, i, st, mbs, mtl) ==
    IF i >= Len(ps) THEN st
    ELSE PlanLoop(ps, i + 1, PlanStep(st, i, ps[i + 1], mbs, mtl), mbs, mtl)

\* Mutant: the batch still open when the loop ends is not pushed.
CreateBatches_NoFinalPush(ps, mbs, mtl) ==
    LET st == PlanLoop(ps, 0, [batches |-> <<>>, currentBatch |-> EmptyBatch,
                               currentBatchLen |-> 0], mbs, mtl)
    IN  st.batches

CreateBatches(ps, mbs, mtl) ==
    LET st == PlanLoop(ps, 0, [batches |-> <<>>, currentBatch |-> EmptyBatch,
                               currentBatchLen |-> 0], mbs, mtl)
    IN  IF Len(st.currentBatch.indices) > 0
            THEN Append(st.batches, st.currentBatch)
            ELSE st.batches

\* paragraphs.map(p => ({ original: p, translated: "" }))
InitResults(ps) == [i \in 1..Len(ps) |-> [original |-> ps[i], translated |-> EmptyStr]]

\* ------------------------------------------------------- processBatch(batch)
\* pc: "queued" (processBatch not called), "call" (awaiting a completion call),
\*     "backoff" (awaiting the retry timer), "fulfilled" (processBatch returned,
\*     the .then callback has not run), "done" (the callback removed the promise),
\*     "rejected" (processBatch threw; its promise stays in activePromises).
\* path/k/acc: the position inside translateBatch while pc = "call": the single
\*     call, the structured call, or the k-th call of the sequential fallback
\*     with the texts acc translated so far.
\* delay: the wait of the last backoff of the running retry loop, in
\*     milliseconds, as the fraction num / den.
NoDelay == [num |-> 0, den |-> 1]

\* Mutant: the wait grows by 1000 ms per retry.
Delay_Linear(retryCount) ==
    IF BackoffBaseMs * retryCount >= BackoffCapMs
        THEN [num |-> BackoffCapMs, den |-> 1]
        ELSE [num |-> BackoffBaseMs * retryCount, den |-> 1]

\* Math.min(1000 * Math.pow(1.5, retryCount - 1), 10000), with 1.5 = 3 / 2:
\* the powers of 1.5 are exact in floating point, 1.5^n = 3^n / 2^n, and
\* 1000 * 1.5^n >= 10000 exactly when 3^n >= (10000 / 1000) * 2^n.
Delay(retryCount) ==
    LET n == retryCount - 1 IN
    IF BackoffFactorNum ^ n >= (BackoffCapMs \div BackoffBaseMs) * BackoffFactorDen ^ n
        THEN [num |-> BackoffCapMs, den |-> 1]
        ELSE [num |-> BackoffBaseMs * BackoffFactorNum ^ n, den |-> BackoffFactorDen ^ n]

\* No translateBatch call returned in the last step.
NoReturn == [b |-> 0, texts |-> <<>>, path |-> "none"]

NewTask == [pc |-> "queued", retryCount |-> 0, delay |-> NoDelay, path |-> "none",
            k |-> 0, acc |-> <<>>, outcome |-> "none"]

\* An effect of a step of a batch task: its new state, the results array, the
\* texts accepted for the batch, the calls of onParagraphTranslated made so far
\* (cb) and, when translateBatch returned in the step, the array it returned
\* and the path it took (ret).
Eff(t, res, okTexts) ==
    [t |-> t, res |-> res, acc |-> okTexts, ret |-> NoReturn, cb |-> notified]

\* retryCount is a local of processBatch: it is gone (0 here) once the call has
\* returned or thrown.
Reject(b, t) == Eff([t EXCEPT !.pc = "rejected", !.retryCount = 0, !.delay = NoDelay,
                              !.path = "none", !.k = 0, !.acc = <<>>],
                    results, accepted[b])

\* Mutant: a batch that gives up stores a failure text instead of "".
RECURSIVE MarkEmpty_FailureText(_, _, _)
MarkEmpty_FailureText(res, batch, k) ==
    IF k > Len(batch.indices) THEN res
    ELSE MarkEmpty_FailureText(
            [res EXCEPT ![batch.indices[k] + 1].translated = <<"[FYSB]">>], batch, k + 1)

\* batch.indices.forEach(originalIndex => { results[originalIndex].translated = "" })
RECURSIVE MarkEmpty(_, _, _)
MarkEmpty(res, batch, k) ==
    IF k > Len(batch.indices) THEN res
    ELSE MarkEmpty([res EXCEPT ![batch.indices[k] + 1].translated = EmptyStr], batch, k + 1)

\* Mutant: the write replaces the entry by a new object without its original.
RECURSIVE WriteLoop_NewEntry(_, _, _, _)
WriteLoop_NewEntry(res, batch, texts, k) ==
    IF k > Len(batch.indices) THEN res
    ELSE WriteLoop_NewEntry(
            [res EXCEPT ![batch.indices[k] + 1] = [original |-> EmptyStr, translated |-> texts[k]]],
            batch, texts, k + 1)

\* Mutant: the write uses the position inside the batch as the result index.
RECURSIVE WriteLoop_BatchIndex(_, _, _, _)
WriteLoop_BatchIndex(res, batch, texts, k) ==
    IF k > Len(batch.indices) THEN res
    ELSE WriteLoop_BatchIndex([res EXCEPT ![k].translated = texts[k]], batch, texts, k + 1)

\* batch.indices.forEach((originalIndex, batchIndex) => {
\*     results[originalIndex].translated = translatedTexts[batchIndex] ... })
RECURSIVE WriteLoop(_, _, _, _)
WriteLoop(res, batch, texts, k) ==
    IF k > Len(batch.indices) THEN res
    ELSE WriteLoop([res EXCEPT ![batch.indices[k] + 1].translated = texts[k]],
                   batch, texts, k + 1)

\* Mutant: the callback is invoked whatever the signal says.
RECURSIVE NotifyLoop_IgnoreSignal(_, _, _, _)
NotifyLoop_IgnoreSignal(cb, batch, texts, k) ==
    IF k > Len(batch.indices) THEN cb
    ELSE NotifyLoop_IgnoreSignal(
            [cb EXCEPT ![batch.indices[k] + 1] = Append(@, texts[k])],
            batch, texts, k + 1)

\* Mutant: the callback is given the position inside the batch as the index.
RECURSIVE NotifyLoop_BatchIndex(_, _, _, _)
NotifyLoop_BatchIndex(cb, batch, texts, k) ==
    IF k > Len(batch.indices) THEN cb
    ELSE NotifyLoop_BatchIndex(
            IF Aborted THEN cb ELSE [cb EXCEPT ![k] = Append(@, texts[k])],
            batch, texts, k + 1)

\* batch.indices.forEach((originalIndex, batchIndex) => { ...
\*     if (onParagraphTranslated && !signal?.aborted)
\*         onParagraphTranslated(originalIndex, trans) })
RECURSIVE NotifyLoop(_, _, _, _)
NotifyLoop(cb, batch, texts, k) ==
    IF k > Len(batch.indices) THEN cb
    ELSE NotifyLoop(
            IF Aborted THEN cb
            ELSE [cb EXCEPT ![batch.indices[k] + 1] = Append(@, texts[k])],
            batch, texts, k + 1)

\* The catch block of the retry loop.
HandleError(b, t, err) ==
    IF IsAbortClassified(err) THEN Reject(b, t)
    ELSE LET rc == t.retryCount + 1 IN
         IF rc > maxRetries
            THEN Eff([t EXCEPT !.pc = "fulfilled", !.outcome = "GivenUp",
                               !.retryCount = 0, !.delay = NoDelay,
                               !.path = "none", !.k = 0, !.acc = <<>>],
                     MarkEmpty(results, batches[b], 1), accepted[b])
            ELSE Eff([t EXCEPT !.pc = "backoff", !.retryCount = rc, !.delay = Delay(rc),
                               !.path = "none", !.k = 0, !.acc = <<>>],
                     results, accepted[b])

\* Mutant: the signal is not handed to the completion call.
CallCompletion_NoSignal(b, t, path, k, acc) ==
    [t |-> [t EXCEPT !.pc = "call", !.path = path, !.k = k, !.acc = acc],
     res |-> results, acc |-> accepted[b], ret |-> NoReturn, cb |-> notified]

\* chatCompletion(config, request, signal): fetch with an aborted signal rejects
\* with an AbortError without sending anything; otherwise the request is in flight.
CallCompletion(b, t, path, k, acc) ==
    IF Aborted THEN HandleError(b, t, AbortError)
    ELSE Eff([t EXCEPT !.pc = "call", !.path = path, !.k = k, !.acc = acc],
             results, accepted[b])

\* Mutant: translateBatch has no shortcut for a single text.
TranslateBatchCall_NoShortcut(b, t) ==
    CallCompletion(b, t, "structured", 0, <<>>)

\* translateBatch up to its first await.
TranslateBatchCall(b, t) ==
    CallCompletion(b, t, IF Len(batches[b].texts) = 1 THEN "single" ELSE "structured", 0, <<>>)

\* Top of the while loop: the abort check and the next attempt.
StartAttempt(b, t) ==
    IF Aborted THEN Reject(b, t) ELSE TranslateBatchCall(b, t)

\* processBatch from its call to its first await.
ProcessBatchEntry(b, t) ==
    IF Aborted
        THEN Eff([t EXCEPT !.pc = "fulfilled", !.outcome = "Skipped"], results, accepted[b])
        ELSE StartAttempt(b, t)

\* Mutant: the marker check is left out.
FirstMarker_None(texts) == 0

\* The first text of translatedTexts the marker check throws on, 0 if none.
FirstMarker(texts) ==
    IF \E k \in 1..Len(texts) : IsFailureMarker(texts[k])
        THEN CHOOSE k \in 1..Len(texts) :
                /\ IsFailureMarker(texts[k])
                /\ \A j \in 1..(k - 1) : ~IsFailureMarker(texts[j])
        ELSE 0

\* Mutant: the texts are written before they are validated.
AfterTranslateBatch_WriteFirst(b, t, texts) ==
    [ (IF FirstMarker(texts) # 0
        THEN [ HandleError(b, t, ContentError(texts[FirstMarker(texts)]))
               EXCEPT !.res = WriteLoop(results, batches[b], texts, 1) ]
        ELSE [ Eff([t EXCEPT !.pc = "fulfilled", !.outcome = "Succeeded",
                             !.retryCount = 0, !.delay = NoDelay,
                             !.path = "none", !.k = 0, !.acc = <<>>],
                   WriteLoop(results, batches[b], texts, 1), texts)
               EXCEPT !.cb = NotifyLoop(notified, batches[b], texts, 1) ])
      EXCEPT !.ret = [b |-> b, texts |-> texts, path |-> t.path] ]

\* translateBatch has returned translatedTexts: validation, then the write.
AfterTranslateBatch(b, t, texts) ==
    [ (IF FirstMarker(texts) # 0
        THEN HandleError(b, t, ContentError(texts[FirstMarker(texts)]))
        ELSE [ Eff([t EXCEPT !.pc = "fulfilled", !.outcome = "Succeeded",
                             !.retryCount = 0, !.delay = NoDelay,
                             !.path = "none", !.k = 0, !.acc = <<>>],
                   WriteLoop(results, batches[b], texts, 1), texts)
               EXCEPT !.cb = NotifyLoop(notified, batches[b], texts, 1) ])
      EXCEPT !.ret = [b |-> b, texts |-> texts, path |-> t.path] ]

\* Mutant: the fallback leaves out the first text.
AfterStructured_FromSecond(b, t, resp) ==
    IF resp.kind = "array" /\ Len(resp.items) = Len(batches[b].texts)
        THEN AfterTranslateBatch(b, t, resp.items)
        ELSE CallCompletion(b, t, "fallback", 2, <<>>)

\* The structured response has arrived: parse and check, else start the fallback.
AfterStructured(b, t, resp) ==
    IF resp.kind = "array" /\ Len(resp.items) = Len(batches[b].texts)
        THEN AfterTranslateBatch(b, t, resp.items)
        ELSE CallCompletion(b, t, "fallback", 1, <<>>)

\* Mutant: the fallback puts each translation in front of the earlier ones.
AfterFallbackCall_Prepend(b, t, r) ==
    IF t.k = Len(batches[b].texts)
        THEN AfterTranslateBatch(b, t, <<r>> \o t.acc)
        ELSE CallCompletion(b, t, "fallback", t.k + 1, <<r>> \o t.acc)

\* The k-th call of the sequential fallback has returned r.
AfterFallbackCall(b, t, r) ==
    IF t.k = Len(batches[b].texts)
        THEN AfterTranslateBatch(b, t, Append(t.acc, r))
        ELSE CallCompletion(b, t, "fallback", t.k + 1, Append(t.acc, r))

\* ------------------------------------------------- promises the main awaits
\* A promise of activePromises is pending until its task is "done" (fulfilled
\* and removed by its own callback) or "rejected" (never removed).
RejectedIn(active, tk) == \E j \in 1..Len(active) : tk[active[j]].pc = "rejected"

\* await Promise.race(activePromises), at the time of the call
RaceState(active, tk) == IF RejectedIn(active, tk) THEN "rejected" ELSE "pending"

\* await Promise.all(activePromises), at the time of the call
AllState(active, tk) ==
    IF RejectedIn(active, tk) THEN "rejected"
    ELSE IF Len(active) = 0 THEN "fulfilled" ELSE "pending"

\* A promise of activePromises settles with outcome o while the main function
\* awaits: race settles with the first one, all rejects with the first
\* rejection and is fulfilled when the last promise is.
OnSettle(o, activeAfter) ==
    IF awaitState # "pending" THEN awaitState
    ELSE IF mainPc = "race" THEN o
    ELSE IF o = "rejected" THEN "rejected"
    ELSE IF Len(activeAfter) = 0 THEN "fulfilled" ELSE "pending"

\* Mutant: the window test is off by one (> for >=).
WindowFull_OffByOne(active, limit) == Len(active) > limit

\* activePromises.length >= concurrency
WindowFull(active, limit) == Len(active) >= limit

\* const idx = activePromises.indexOf(p); if (idx > -1) activePromises.splice(idx, 1)
RemovePromise(active, b) == SelectSeq(active, LAMBDA x : x # b)

\* The main function is inside a synchronous section.
MainRunning == mainPc \in {"for", "while"}

BatchIds == 1..Len(batches)

\* A batch has reached a terminal state of the retry policy.
Terminal(t) == t.outcome \in {"Succeeded", "GivenUp"}

\* ---------------------------------------------------------- the cache store
\* The item ids and the texts of the modelled cache operations.
ItemIds == {"i1", "i2"}
SummaryTexts == {"s"}
TranslationTexts == {"t1", "t2"}
TitleTexts == {"h"}

\* The retention windows clearOldCache is called with: clearOldAICache(0) of
\* the settings page, and one day.
DaysToKeep == {0, 1}

\* A field of an entry that was never set.
Undefined == "undefined"

\* The null getCache returns.
Null == [null |-> TRUE]

\* cacheFilePath before initDB, and after it.
NoPath == ""
AiCachePath == "userData/ai-cache.json"

EntryFields == {"itemId", "summary", "translation", "titleTranslation", "createdAt"}

\* The backing file: absent, not parseable, or the JSON text of an object.
Missing == [kind |-> "missing"]
Corrupt == [kind |-> "corrupt"]

\* new Map()
EmptyMap == [id \in {} |-> Null]

\* Mutant: the title translation is not written to the file.
Stringify_NoTitle(map) ==
    [kind |-> "json",
     obj |-> [id \in DOMAIN map |->
                [f \in { g \in EntryFields \ {"titleTranslation"} :
                            g = "createdAt" \/ map[id][g] # Undefined }
                    |-> map[id][f]]]]

\* JSON.stringify(Object.fromEntries(map)): a field that is undefined is left
\* out of its object.
Stringify(map) ==
    [kind |-> "json",
     obj |-> [id \in DOMAIN map |->
                [f \in { g \in EntryFields : g = "createdAt" \/ map[id][g] # Undefined }
                    |-> map[id][f]]]]

\* new Map(Object.entries(JSON.parse(data))): a field that is not in the object
\* reads as undefined.
Parse(file) ==
    [id \in DOMAIN file.obj |->
        [f \in EntryFields |-> IF f \in DOMAIN file.obj[id] THEN file.obj[id][f]
                                                             ELSE Undefined]]

\* loadCache: the map stays as it is when the file does not exist, and is
\* emptied when reading or parsing throws.
LoadCache(file, map) ==
    IF file = Missing THEN map
    ELSE IF file = Corrupt THEN EmptyMap
    ELSE Parse(file)

\* The files saveCache can leave behind: the new text, or, when
\* writeFileSync throws, the old file or a file cut short.
SaveCache(map) ==
    IF cacheFilePath = NoPath THEN {cacheFile}
    ELSE {Stringify(map)}
            \cup (IF writeFailures < MaxWriteFailures THEN {cacheFile, Corrupt} ELSE {})

\* saveCache has left the file f for the map: one more failed write unless f
\* is the text of the map.
FailuresAfter(f, map) ==
    IF cacheFilePath = NoPath \/ f = Stringify(map) THEN writeFailures
    ELSE writeFailures + 1

\* cacheData.get(itemId) || { itemId, createdAt: Date.now() }
EntryOrNew(itemId) ==
    IF itemId \in DOMAIN cacheData THEN cacheData[itemId]
    ELSE [itemId |-> itemId, summary |-> Undefined, translation |-> Undefined,
          titleTranslation |-> Undefined, createdAt |-> now]

\* Mutant: the map is replaced by one that holds only the new entry.
MapSet_Replace(map, k, v) == [x \in {k} |-> v]

\* map.set(k, v)
MapSet(map, k, v) == [x \in DOMAIN map \cup {k} |-> IF x = k THEN v ELSE map[x]]

\* Mutant: the save starts from a fresh entry even when one exists.
Upsert_FreshEntry(itemId, field, value) ==
    MapSet(cacheData, itemId,
           [[itemId |-> itemId, summary |-> Undefined, translation |-> Undefined,
             titleTranslation |-> Undefined, createdAt |-> now] EXCEPT ![field] = value])

\* entry[field] = value; entry.createdAt = Date.now(); cacheData.set(itemId, entry)
Upsert(itemId, field, value) ==
    MapSet(cacheData, itemId, [EntryOrNew(itemId) EXCEPT ![field] = value, !.createdAt = now])

\* Date.now() - daysToKeep * 24 * 60 * 60 * 1000
CutoffTime(daysToKeep) == now - daysToKeep * DayMs

\* Mutant: the sweep also removes the entries created exactly at the cutoff.
Kept_AfterCutoff(map, daysToKeep) ==
    [id \in { x \in DOMAIN map : map[x].createdAt > CutoffTime(daysToKeep) } |-> map[id]]

\* The entries clearOldCache leaves in the map.
Kept(map, daysToKeep) ==
    [id \in { x \in DOMAIN map : ~(map[x].createdAt < CutoffTime(daysToKeep)) } |-> map[id]]

\* getCache(itemId)
GetCache(itemId) ==
    IF cacheFilePath = NoPath THEN Null
    ELSE IF itemId \in DOMAIN cacheData THEN cacheData[itemId] ELSE Null

\* ensureCacheInit: initDB runs once, when the application is ready.
InitDB ==
    /\ cacheFilePath = NoPath
    /\ cacheFilePath' = AiCachePath
    /\ cacheData' = LoadCache(cacheFile, cacheData)
    /\ UNCHANGED <<cacheFile, writeFailures, now>>
    /\ UNCHANGED <<runVars, aiConfigs, matchVars, handlerVars>>

\* Mutant: a save before initDB updates the map.
SaveField_NoInitGuard(field, itemId, value) ==
    /\ cacheData' = Upsert(itemId, field, value)
    /\ cacheFile' \in SaveCache(cacheData')
    /\ writeFailures' = FailuresAfter(cacheFile', cacheData')
    /\ UNCHANGED <<cacheFilePath, now>>
    /\ UNCHANGED <<runVars, aiConfigs, matchVars, handlerVars>>

\* Mutant: a save whose write fails leaves the map as it was.
SaveField_RollbackOnFailure(field, itemId, value) ==
    /\ IF cacheFilePath = NoPath
          THEN UNCHANGED <<cacheData, cacheFile, writeFailures>>
          ELSE LET map == Upsert(itemId, field, value) IN
               /\ cacheFile' \in SaveCache(map)
               /\ cacheData' = IF cacheFile' = Stringify(map) THEN map ELSE cacheData
               /\ writeFailures' = FailuresAfter(cacheFile', map)
    /\ UNCHANGED <<cacheFilePath, now>>
    /\ UNCHANGED <<runVars, aiConfigs, matchVars, handlerVars>>

\* A save* call: nothing before initDB, else the upsert and saveCache.
SaveField(field, itemId, value) ==
    /\ IF cacheFilePath = NoPath
          THEN UNCHANGED <<cacheData, cacheFile, writeFailures>>
          ELSE /\ cacheData' = Upsert(itemId, field, value)
               /\ cacheFile' \in SaveCache(cacheData')
               /\ writeFailures' = FailuresAfter(cacheFile', cacheData')
    /\ UNCHANGED <<cacheFilePath, now>>
    /\ UNCHANGED <<runVars, aiConfigs, matchVars, handlerVars>>

SaveSummary(itemId, summary) == SaveField("summary", itemId, summary)

SaveTranslation(itemId, translation) ==
    SaveField("translation", itemId, translation)

SaveTitleTranslation(itemId, titleText) ==
    SaveField("titleTranslation", itemId, titleText)

\* clearOldCache(daysToKeep): nothing before initDB, else the sweep and saveCache.
ClearOldCache(daysToKeep) ==
    /\ IF cacheFilePath = NoPath
          THEN UNCHANGED <<cacheData, cacheFile, writeFailures>>
          ELSE /\ cacheData' = Kept(cacheData, daysToKeep)
               /\ cacheFile' \in SaveCache(cacheData')
               /\ writeFailures' = FailuresAfter(cacheFile', cacheData')
    /\ UNCHANGED <<cacheFilePath, now>>
    /\ UNCHANGED <<runVars, aiConfigs, matchVars, handlerVars>>

\* before-quit: closeDB saves the map; the next start of the application has
\* a fresh module state.
Quit ==
    /\ cacheFile' \in SaveCache(cacheData)
    /\ writeFailures' = FailuresAfter(cacheFile', cacheData)
    /\ cacheFilePath' = NoPath
    /\ cacheData' = EmptyMap
    /\ UNCHANGED now
    /\ UNCHANGED <<runVars, aiConfigs, matchVars, handlerVars>>

\* Time passes: a millisecond, or a day.
Tick ==
    /\ \/ /\ now % DayMs = 0
          /\ now' = now + 1
       \/ /\ now \div DayMs < MaxClockDays
          /\ now' = now + DayMs
    /\ UNCHANGED <<cacheFilePath, cacheData, cacheFile, writeFailures>>
    /\ UNCHANGED <<runVars, aiConfigs, matchVars, handlerVars>>

NextCache ==
    \/ InitDB
    \/ \E id \in ItemIds, v \in SummaryTexts : SaveSummary(id, v)
    \/ \E id \in ItemIds, v \in TranslationTexts : SaveTranslation(id, v)
    \/ \E id \in ItemIds, v \in TitleTexts : SaveTitleTranslation(id, v)
    \/ \E d \in DaysToKeep : ClearOldCache(d)
    \/ Quit
    \/ Tick

\* The module state at the start of the application.
\* The store before initDB, over a cache file left as `file` by earlier runs.
CacheAtStart(file) ==
    /\ cacheFilePath = NoPath
    /\ cacheData = EmptyMap
    /\ cacheFile = file
    /\ writeFailures = 0
    /\ now = 0

InitCache == CacheAtStart(Missing)

\* ------------------------------------------------- injectCachedTranslations
\* (s || "").replace(/<[^>]*>/g, ""): the first "<" that has a ">" after it is
\* removed together with everything up to the first such ">", and the rest of
\* the text is treated the same way.
RECURSIVE Strip(_)
Strip(s) ==
    LET opens == { i \in 1..Len(s) : s[i] = "<" /\ \E j \in (i + 1)..Len(s) : s[j] = ">" }
    IN  IF opens = {} THEN s
        ELSE LET i == CHOOSE x \in opens : \A y \in opens : x <= y
                 j == CHOOSE x \in (i + 1)..Len(s) :
                            s[x] = ">" /\ \A y \in (i + 1)..(x - 1) : s[y] # ">"
             IN  SubSeq(s, 1, i - 1) \o Strip(SubSeq(s, j + 1, Len(s)))

\* Math.min(a.length, b.length, 100)
Min3(x, y, z) ==
    IF x <= y /\ x <= z THEN x ELSE IF y <= z THEN y ELSE z

\* Mutant: the texts are compared with their markup.
calculateTextSimilarity_NoStrip(text1, text2) ==
    LET a == text1
        b == text2
        len == Min3(Len(a), Len(b), SimilarityWindow)
    IN  IF len = 0 THEN [matches |-> 0, len |-> 1]
        ELSE [matches |-> Cardinality({ i \in 1..len : a[i] = b[i] }), len |-> len]

\* calculateTextSimilarity: the score matches / len as a fraction; 0 is 0 / 1.
calculateTextSimilarity(text1, text2) ==
    LET a == Strip(text1)
        b == Strip(text2)
        len == Min3(Len(a), Len(b), SimilarityWindow)
    IN  IF len = 0 THEN [matches |-> 0, len |-> 1]
        ELSE [matches |-> Cardinality({ i \in 1..len : a[i] = b[i] }), len |-> len]

\* Mutant: a later fragment with an equal score replaces the best one.
ScoreGreater_OrEqual(score, bestScore) ==
    score.matches * bestScore.len >= bestScore.matches * score.len

\* score > bestScore
ScoreGreater(score, bestScore) ==
    score.matches * bestScore.len > bestScore.matches * score.len

\* bestScore >= 0.35
AboveThreshold(bestScore) ==
    bestScore.matches * 100 >= MatchThresholdPercent * bestScore.len

\* The inner loop over texts from index i (0-based) on, with the best
\* candidate so far.
RECURSIVE BestFrom(_, _, _, _, _)
BestFrom(original, fragments, used, i, best) ==
    IF i >= Len(fragments) THEN best
    ELSE IF i \in used THEN BestFrom(original, fragments, used, i + 1, best)
    ELSE LET score == calculateTextSimilarity(fragments[i + 1], original) IN
         IF ScoreGreater(score, best.bestScore)
            THEN BestFrom(original, fragments, used, i + 1,
                          [bestIdx |-> i, bestScore |-> score])
            ELSE BestFrom(original, fragments, used, i + 1, best)

\* Mutant: the inner loop does not skip the fragments already used.
BestMatch_IgnoreUsed(original, fragments, used) ==
    BestFrom(original, fragments, {}, 0,
             [bestIdx |-> -1, bestScore |-> [matches |-> 0, len |-> 1]])

\* let bestIdx = -1; let bestScore = 0; for (let i = 0; ...) ...
BestMatch(original, fragments, used) ==
    BestFrom(original, fragments, used, 0,
             [bestIdx |-> -1, bestScore |-> [matches |-> 0, len |-> 1]])

\* The outer loop over the cached pairs from pair p (0-based) on: the insert
\* calls made, in order.
RECURSIVE MatchLoop(_, _, _, _)
MatchLoop(pairs, fragments, p, calls) ==
    IF p >= Len(pairs) THEN calls
    ELSE LET used == { calls[c].index : c \in 1..Len(calls) }
             best == BestMatch(pairs[p + 1].original, fragments, used)
         IN  IF best.bestIdx >= 0 /\ AboveThreshold(best.bestScore)
                THEN MatchLoop(pairs, fragments, p + 1,
                               Append(calls, [pair |-> p, index |-> best.bestIdx,
                                              translated |-> pairs[p + 1].translated,
                                              score |-> best.bestScore]))
                ELSE MatchLoop(pairs, fragments, p + 1, calls)

\* No text is appended as the global block.
NoBlock == <<"(none)">>

\* aiTranslation.map(x => x?.translated || "").filter(Boolean).join("\n\n")
RECURSIVE AllTranslated(_)
AllTranslated(pairs) ==
    IF pairs = <<>> THEN <<>>
    ELSE IF Head(pairs).translated = EmptyStr THEN AllTranslated(Tail(pairs))
    ELSE IF AllTranslated(Tail(pairs)) = <<>> THEN Head(pairs).translated
    ELSE Head(pairs).translated \o <<"\n\n">> \o AllTranslated(Tail(pairs))

\* if (allTranslated) append it as the global block
AppendGlobal(pairs) ==
    IF AllTranslated(pairs) = <<>> THEN NoBlock ELSE AllTranslated(pairs)

\* Mutant: the fallback is taken whatever was matched.
NoneUsed_Always(calls) == TRUE

\* used.size === 0
NoneUsed(calls) == Len(calls) = 0

\* injectCachedTranslations, from its call to its return.
InjectCachedTranslations ==
    /\ injectPc = "idle"
    /\ injectPc' = "done"
    /\ IF Len(aiTranslation) = 0
          THEN inserted' = <<>> /\ globalBlock' = NoBlock
          ELSE IF Len(pageTexts) = 0
          THEN inserted' = <<>> /\ globalBlock' = AppendGlobal(aiTranslation)
          ELSE /\ inserted' = MatchLoop(aiTranslation, pageTexts, 0, <<>>)
               /\ globalBlock' = IF NoneUsed(inserted') THEN AppendGlobal(aiTranslation)
                                 ELSE NoBlock
    /\ UNCHANGED <<aiTranslation, pageTexts, simText1, simText2, simScore>>
    /\ UNCHANGED <<runVars, aiConfigs, cacheVars, handlerVars>>

\* A call of calculateTextSimilarity on its own.
NoScore == [matches |-> -1, len |-> 1]

NoSimilarityCall ==
    /\ simText1 = <<>>
    /\ simText2 = <<>>
    /\ simScore = NoScore

SimilarityCall ==
    /\ simScore = NoScore
    /\ simScore' = calculateTextSimilarity(simText1, simText2)
    /\ UNCHANGED <<simText1, simText2>>
    /\ UNCHANGED <<aiTranslation, pageTexts, injectPc, inserted, globalBlock>>
    /\ UNCHANGED <<runVars, aiConfigs, cacheVars, handlerVars>>

\* The texts of the modelled calls: every text of up to SimMaxLen characters
\* over two letters and the two angle brackets, two texts one character longer
\* than the window that differ only in their last character, and a text one
\* character shorter than the window.
SimAlphabet == {"a", "b", "<", ">"}

LongText(last) == [i \in 1..(SimilarityWindow + 1) |-> IF i <= SimilarityWindow THEN "a" ELSE last]

SimTexts ==
    UNION { [1..n -> SimAlphabet] : n \in 0..SimMaxLen }
        \cup { LongText("a"), LongText("b"), SubSeq(LongText("a"), 1, SimilarityWindow - 1) }

\* The fragment texts of the modelled pages: innerHTML of elements with text,
\* some equal up to markup, some sharing a prefix, some sharing too little.
MatchCorpus ==
    { <<"a", "b", "c">>, <<"a", "b", "d">>, <<"a", "x", "x">>, <<"a", "b">>,
      <<"<", "i", ">", "a", "b", "c">> }

\* The cached pairs: a fragment text with its translation, or with "" when no
\* translation was stored, and the entry of a hole in the list.
CachedPairs ==
    UNION { { [original |-> o, translated |-> t] : t \in {Tr(o), EmptyStr} } :
                o \in MatchCorpus }
        \cup { [original |-> EmptyStr, translated |-> EmptyStr] }

ListsOf(S) == UNION { [1..n -> S] : n \in 0..MatchMaxFragments }

InitMatch ==
    /\ aiTranslation = <<>>
    /\ pageTexts = <<>>
    /\ injectPc = "idle"
    /\ inserted = <<>>
    /\ globalBlock = NoBlock
    /\ NoSimilarityCall

\* --------------------------------------------------------- ArticleAIHandler
\* The texts of the article of an item: fragment i of its page, its title, and
\* the root HTML used when the page has no fragments.
PageFragment(item, i) == [k \in 1..i |-> "w"]

TitleOf(item) == <<"title">>

RootText(item) == <<"root">>

\* Elements of the aiTranslation array that are no pair: a slot never assigned
\* (list[index] = ... past the end leaves such slots), undefined (what the
\* spread [...list] makes of such a slot), and null (what JSON.stringify makes
\* of both).
EmptySlot == [slot |-> "empty"]

UndefinedSlot == [slot |-> "undefined"]

NullSlot == [slot |-> "null"]

IsPair(e) == "original" \in DOMAIN e

\* A call of translateArticle: where it stands, the itemId and newRunId it
\* captured, its handler (the one in use, or one replaced since, of which it
\* was the latest run or not), whether it took translateFullContentFallback, whether the promise
\* of translateTitle is pending, the number n of fragments handed to
\* translateTextByParagraph and the fragments whose batch is still in flight
\* (one fragment per batch, all dispatched at once: translateParagraphs passes
\* no limits and the pages have fewer fragments than the default concurrency),
\* and the title translations that calls of saveTranslationCache still have to
\* send.
NoRun ==
    [pc |-> "none", itemId |-> "", runId |-> 0, handler |-> "current",
     fallback |-> FALSE, title |-> "idle", n |-> 0, pending |-> {}, saves |-> <<>>]

RunIds == 1..MaxRuns

\* A call of translateArticle that has settled with nothing left to do: no
\* title promise, no batch in flight, no save to send. What it captured is
\* dropped.
Settled == [NoRun EXCEPT !.pc = "done"]

Tidy(rs) ==
    [r \in RunIds |->
        IF rs[r].pc = "done" /\ rs[r].title = "idle" /\ rs[r].pending = {}
                             /\ rs[r].saves = <<>>
           THEN Settled ELSE rs[r]]

\* A call of window.settings.saveAITranslation or saveTitleTranslation: the
\* item id, the field, and the value sent; NoSaveCall when a step makes none.
NoSaveCall == [itemId |-> "", field |-> "", value |-> <<>>]

SaveCall(id, field, v) == [itemId |-> id, field |-> field, value |-> v]

\* The component after it is mounted, with its handler (state updates take
\* effect at once, as setState does outside of React's own event handlers).
HandlerIdle ==
    /\ currentItem = "i1"
    /\ unmounted = FALSE
    /\ translationAbort = 0
    /\ abortedControllers = {}
    /\ titleTranslation = EmptyStr
    /\ translationLoading = FALSE
    /\ translationRunId = 0
    /\ runs = [r \in RunIds |-> NoRun]
    /\ saveCall = NoSaveCall

\* itemId === String(this.getItem()._id) && this.translationAbort === controller
\*     && this.getState().translationRunId === newRunId
IsCurrent(r) ==
    /\ runs[r].itemId = currentItem
    /\ \/ runs[r].handler = "current" /\ translationAbort = r
       \/ runs[r].handler = "oldLatest"
    /\ translationRunId = runs[r].runId

\* updateAIState: if (this.unmounted) return; this.setState(...)
UpdateState(old, new) == IF unmounted THEN old ELSE new

\* [...state.aiTranslation]
Spread(list) ==
    [i \in 1..Len(list) |-> IF list[i] = EmptySlot THEN UndefinedSlot ELSE list[i]]

\* const list = [...state.aiTranslation]; list[index] = entry
SetAt(list, index, entry) ==
    LET sp == Spread(list)
        n == IF Len(sp) > index + 1 THEN Len(sp) ELSE index + 1
    IN  [i \in 1..n |-> IF i = index + 1 THEN entry
                        ELSE IF i <= Len(sp) THEN sp[i]
                        ELSE EmptySlot]

\* t.translated.includes("[FYSB") || t.translated.includes("Translation failed")
IncludesFailure(t) ==
    \E i \in 1..Len(t) :
        \/ t[i] = "[FYSB]"
        \/ i < Len(t) /\ t[i] = "Translation" /\ t[i + 1] = "failed"

\* state.aiTranslation.some(t => t.translated && (...)) from element i on:
\* slots never assigned are skipped, an element that is no object throws.
RECURSIVE SomeFailure(_, _)
SomeFailure(list, i) ==
    IF i > Len(list) THEN "false"
    ELSE IF list[i] = EmptySlot THEN SomeFailure(list, i + 1)
    ELSE IF ~IsPair(list[i]) THEN "throws"
    ELSE IF IncludesFailure(list[i].translated) THEN "true"
    ELSE SomeFailure(list, i + 1)

\* JSON.stringify(state.aiTranslation)
JsonOfList(list) == [i \in 1..Len(list) |-> IF IsPair(list[i]) THEN list[i] ELSE NullSlot]

\* saveTranslationCache up to its first await: the list is sent under the id
\* of the item shown now unless a failure text is found or the check throws;
\* the title translation read at the start is sent once that call has returned.
SaveTranslationCache(list, title) ==
    IF SomeFailure(list, 1) # "false"
        THEN [cw |-> NoSaveCall, pending |-> <<>>]
        ELSE [cw |-> SaveCall(currentItem, "translation", JsonOfList(list)),
              pending |-> IF title = EmptyStr THEN <<>> ELSE <<title>>]

\* What a step of the handler leaves alone.
HandlerFrame ==
    /\ UNCHANGED <<pageTexts, injectPc, inserted, globalBlock, simText1, simText2, simScore>>
    /\ UNCHANGED <<runVars, aiConfigs, cacheVars>>

\* translateArticle up to its first await (the AI settings are enabled), with
\* the milliseconds that have passed since Date.now() was last read: none or
\* one since the run before, one since the start of the application.
TranslateArticle(r, elapsed) ==
    /\ ~unmounted
    /\ runs[r].pc = "none"
    /\ translationAbort = 0 => elapsed = 1
    /\ \A q \in 1..(r - 1) : runs[q].pc # "none"
    /\ abortedControllers' = IF translationAbort # 0
                                THEN abortedControllers \cup {translationAbort}
                                ELSE abortedControllers
    /\ translationAbort' = r
    /\ translationLoading' = TRUE
    /\ aiTranslation' = <<>>
    /\ now' = now + elapsed
    /\ translationRunId' = now'
    /\ runs' = Tidy([runs EXCEPT ![r] = [NoRun EXCEPT !.pc = "prepare",
                                                 !.itemId = currentItem,
                                                 !.runId = now']])
    /\ UNCHANGED <<currentItem, unmounted, titleTranslation>>
    /\ saveCall' = NoSaveCall
    /\ UNCHANGED <<pageTexts, injectPc, inserted, globalBlock, simText1, simText2, simScore>>
    /\ UNCHANGED <<runVars, aiConfigs, cacheFilePath, cacheData, cacheFile, writeFailures>>

\* What the page and the settings make of the steps up to
\* determineTranslationStrategy: whether to translate, whether the item has a
\* title, the number of fragments found, and whether the root HTML is long
\* enough for the fallback.
PrepareOutcomes ==
    [shouldTranslate : BOOLEAN, hasTitle : BOOLEAN,
     n : 0..HandlerMaxFragments, rootLong : BOOLEAN]

\* The texts handed to translateTextByParagraph: the fragments of the page, or
\* the root HTML if there is none and it is long enough.
FragmentCount(o) == IF o.n > 0 THEN o.n ELSE IF o.rootLong THEN 1 ELSE 0

\* translateArticle from waitForArticleReady to the call of translateParagraphs
\* or translateFullContentFallback. A run whose signal is aborted by then has
\* every batch skipped: none is in flight.
PrepareDone(r, o) ==
    /\ runs[r].pc = "prepare"
    /\ IF ~o.shouldTranslate
          THEN /\ translationLoading' = UpdateState(translationLoading, FALSE)
               /\ runs' = Tidy([runs EXCEPT ![r].pc = "done"])
          ELSE /\ UNCHANGED translationLoading
               /\ runs' = Tidy([runs EXCEPT
                     ![r].pc = IF o.n > 0 THEN "paragraphs" ELSE "fallback",
                     ![r].fallback = (o.n = 0),
                     ![r].title = IF o.hasTitle THEN "pending" ELSE "idle",
                     ![r].n = FragmentCount(o),
                     ![r].pending = IF r \in abortedControllers THEN {}
                                    ELSE 1..FragmentCount(o)])
    /\ UNCHANGED <<currentItem, unmounted, translationAbort, abortedControllers, titleTranslation,
                   translationRunId, aiTranslation>>
    /\ saveCall' = NoSaveCall
    /\ HandlerFrame

\* A step before the translation throws an error that is no cancellation:
\* handleTranslationError.
PrepareFails(r) ==
    /\ runs[r].pc = "prepare"
    /\ runs' = Tidy([runs EXCEPT ![r].pc = "done"])
    /\ translationLoading' = IF IsCurrent(r) THEN UpdateState(translationLoading, FALSE)
                             ELSE translationLoading
    /\ UNCHANGED <<currentItem, unmounted, translationAbort, abortedControllers, titleTranslation,
                   translationRunId, aiTranslation>>
    /\ saveCall' = NoSaveCall
    /\ HandlerFrame

\* The promise of translateTitle is fulfilled, with the translation or null.
TitleDone(r, resOk) ==
    /\ runs[r].title = "pending"
    /\ LET res == IF resOk THEN Tr(TitleOf(runs[r].itemId)) ELSE EmptyStr
           save == SaveTranslationCache(aiTranslation, UpdateState(titleTranslation, res))
       IN  IF IsCurrent(r)
              THEN /\ titleTranslation' = UpdateState(titleTranslation, res)
                   /\ saveCall' = save.cw
                   /\ runs' = Tidy([runs EXCEPT ![r].title = "idle",
                                           ![r].saves = @ \o save.pending])
              ELSE /\ UNCHANGED titleTranslation
                   /\ saveCall' = NoSaveCall
                   /\ runs' = Tidy([runs EXCEPT ![r].title = "idle"])
    /\ UNCHANGED <<currentItem, unmounted, translationAbort, abortedControllers, translationLoading,
                   translationRunId, aiTranslation>>
    /\ HandlerFrame

\* The batch of fragment i succeeds while the signal is not aborted:
\* onParagraphTranslated is called, and the callback of translateParagraphs
\* checks the run before it stores the pair (the callback of the fallback
\* stores nothing).
FragmentSucceeds(r, i) ==
    /\ i \in runs[r].pending
    /\ r \notin abortedControllers
    /\ runs' = Tidy([runs EXCEPT ![r].pending = @ \ {i}])
    /\ aiTranslation' =
          IF ~runs[r].fallback /\ IsCurrent(r)
             THEN UpdateState(aiTranslation,
                     SetAt(aiTranslation, i - 1,
                           [original |-> PageFragment(runs[r].itemId, i),
                            translated |-> Tr(PageFragment(runs[r].itemId, i))]))
             ELSE aiTranslation
    /\ UNCHANGED <<currentItem, unmounted, translationAbort, abortedControllers, titleTranslation,
                   translationLoading, translationRunId>>
    /\ saveCall' = NoSaveCall
    /\ HandlerFrame

\* The batch of fragment i gives up: no callback.
FragmentGivesUp(r, i) ==
    /\ i \in runs[r].pending
    /\ r \notin abortedControllers
    /\ runs' = Tidy([runs EXCEPT ![r].pending = @ \ {i}])
    /\ UNCHANGED <<currentItem, unmounted, translationAbort, abortedControllers, titleTranslation,
                   translationLoading, translationRunId, aiTranslation>>
    /\ saveCall' = NoSaveCall
    /\ HandlerFrame

\* translateTextByParagraph returns, every batch having succeeded or given up
\* (the batches in flight when the signal was aborted finish without a
\* callback, so they are finished here); the fallback stores its single pair,
\* translated if its batch succeeded, and translateArticle goes on to its last
\* check.
ParagraphsReturn(r, succeeded) ==
    /\ runs[r].pc \in {"paragraphs", "fallback"}
    /\ runs[r].pending = {} \/ r \in abortedControllers
    /\ aiTranslation' =
          IF /\ runs[r].fallback
             /\ runs[r].n > 0
             /\ runs[r].itemId = currentItem
             /\ translationRunId = runs[r].runId
             THEN UpdateState(aiTranslation,
                     << [original |-> RootText(runs[r].itemId),
                         translated |-> IF succeeded THEN Tr(RootText(runs[r].itemId))
                                        ELSE EmptyStr] >>)
             ELSE aiTranslation
    /\ IF IsCurrent(r)
          THEN /\ translationLoading' = UpdateState(translationLoading, FALSE)
               /\ runs' = Tidy([runs EXCEPT ![r].pc = "spinner", ![r].pending = {}])
          ELSE /\ UNCHANGED translationLoading
               /\ runs' = Tidy([runs EXCEPT ![r].pc = "done", ![r].pending = {}])
    /\ UNCHANGED <<currentItem, unmounted, translationAbort, abortedControllers, titleTranslation,
                   translationRunId>>
    /\ saveCall' = NoSaveCall
    /\ HandlerFrame

\* translateTextByParagraph rejects while a batch is not finished; every error
\* it rejects with is taken for a cancellation by handleTranslationError.
ParagraphsReject(r) ==
    /\ runs[r].pc \in {"paragraphs", "fallback"}
    /\ runs[r].pending # {}
    /\ runs' = Tidy([runs EXCEPT ![r].pc = "done"])
    /\ UNCHANGED <<currentItem, unmounted, translationAbort, abortedControllers, titleTranslation,
                   translationLoading, translationRunId, aiTranslation>>
    /\ saveCall' = NoSaveCall
    /\ HandlerFrame

\* The spinner script has run: await this.saveTranslationCache().
SpinnerDone(r) ==
    /\ runs[r].pc = "spinner"
    /\ LET save == SaveTranslationCache(aiTranslation, titleTranslation)
       IN  /\ saveCall' = save.cw
           /\ runs' = Tidy([runs EXCEPT ![r].pc = "done", ![r].saves = @ \o save.pending])
    /\ UNCHANGED <<currentItem, unmounted, translationAbort, abortedControllers, titleTranslation,
                   translationLoading, translationRunId, aiTranslation>>
    /\ HandlerFrame

\* saveAITranslation has returned: saveTitleTranslation is sent under the id
\* of the item shown now.
TitleSaveContinues(r) ==
    /\ runs[r].saves # <<>>
    /\ saveCall' = SaveCall(currentItem, "titleTranslation", Head(runs[r].saves))
    /\ runs' = Tidy([runs EXCEPT ![r].saves = Tail(@)])
    /\ UNCHANGED <<currentItem, unmounted, translationAbort, abortedControllers, titleTranslation,
                   translationLoading, translationRunId, aiTranslation>>
    /\ HandlerFrame

\* The runs of the handler in use once that handler is replaced: its
\* translationAbort stays the controller of its latest run.
Orphaned(rs) ==
    [r \in RunIds |->
        IF rs[r].pc # "none" /\ rs[r].handler = "current"
           THEN [rs[r] EXCEPT !.handler = IF translationAbort = r THEN "oldLatest"
                                           ELSE "oldStale"]
           ELSE rs[r]]

\* cleanup(), as far as translation goes
AbortedByCleanup ==
    IF translationAbort # 0 THEN abortedControllers \cup {translationAbort}
    ELSE abortedControllers

\* The component is given another item: componentDidUpdate cleans the handler
\* up, resets the state and makes a new handler.
ChangeItem(id) ==
    /\ ~unmounted
    /\ id # currentItem
    /\ currentItem' = id
    /\ abortedControllers' = AbortedByCleanup
    /\ translationAbort' = 0
    /\ runs' = Tidy(Orphaned(runs))
    /\ titleTranslation' = EmptyStr
    /\ aiTranslation' = <<>>
    /\ translationLoading' = FALSE
    /\ translationRunId' = 0
    /\ UNCHANGED unmounted
    /\ saveCall' = NoSaveCall
    /\ HandlerFrame

\* componentWillUnmount: the handler is cleaned up and dropped.
Unmount ==
    /\ ~unmounted
    /\ unmounted' = TRUE
    /\ abortedControllers' = AbortedByCleanup
    /\ translationAbort' = 0
    /\ runs' = Tidy(Orphaned(runs))
    /\ UNCHANGED <<currentItem, titleTranslation, translationLoading, translationRunId,
                   aiTranslation>>
    /\ saveCall' = NoSaveCall
    /\ HandlerFrame

\* A step of the run with controller r after its start.
RunStep(r) ==
    \/ \E o \in PrepareOutcomes : PrepareDone(r, o)
    \/ PrepareFails(r)
    \/ \E resOk \in BOOLEAN : TitleDone(r, resOk)
    \/ \E i \in 1..HandlerMaxFragments : FragmentSucceeds(r, i)
    \/ \E i \in 1..HandlerMaxFragments : FragmentGivesUp(r, i)
    \/ \E succeeded \in BOOLEAN : ParagraphsReturn(r, succeeded)
    \/ ParagraphsReject(r)
    \/ SpinnerDone(r)
    \/ TitleSaveContinues(r)

NextHandler ==
    \/ \E r \in RunIds, elapsed \in {0, 1} : TranslateArticle(r, elapsed)
    \/ \E r \in RunIds : RunStep(r)
    \/ \E id \in ItemIds : ChangeItem(id)
    \/ Unmount

\* ------------------------------------------------------------------ actions
\* translateTextByParagraph is called: results, the plan, the empty window.
Start ==
    /\ mainPc = "init"
    /\ results' = InitResults(paragraphs)
    /\ batches' = CreateBatches(paragraphs, maxBatchSize, maxTextLen)
    /\ task' = [b \in 1..Len(batches') |-> NewTask]
    /\ accepted' = [b \in 1..Len(batches') |-> <<>>]
    /\ activePromises' = <<>>
    /\ nextBatch' = 1
    /\ mainPc' = "for"
    /\ lastReturn' = NoReturn
    /\ notified' = [i \in 1..Len(paragraphs) |-> <<>>]
    /\ UNCHANGED <<paragraphs, config, signalAborted, awaitState, abortPhase>>
    /\ UNCHANGED otherVars

\* Top of an iteration of "for (const batch of batches)": the loop ends, or
\* breaks on an aborted signal, and the function awaits Promise.all.
ForTop ==
    /\ mainPc = "for"
    /\ IF nextBatch > Len(batches) \/ Aborted
          THEN /\ mainPc' = "all"
               /\ awaitState' = AllState(activePromises, task)
          ELSE /\ mainPc' = "while"
               /\ UNCHANGED awaitState
    /\ lastReturn' = NoReturn
    /\ UNCHANGED notified
    /\ UNCHANGED <<paragraphs, config, signalAborted, results, batches, nextBatch,
                   activePromises, task, accepted, abortPhase>>
    /\ UNCHANGED otherVars

\* The window check, then either the await of Promise.race or the dispatch of
\* the batch: processBatch runs to its first await and its promise is pushed.
WhileCheck ==
    /\ mainPc = "while"
    /\ IF WindowFull(activePromises, concurrency)
          THEN /\ mainPc' = "race"
               /\ awaitState' = RaceState(activePromises, task)
               /\ UNCHANGED <<results, nextBatch, activePromises, task, accepted,
                              notified>>
          ELSE LET e == ProcessBatchEntry(nextBatch, task[nextBatch]) IN
               /\ task' = [task EXCEPT ![nextBatch] = e.t]
               /\ results' = e.res
               /\ accepted' = [accepted EXCEPT ![nextBatch] = e.acc]
               /\ notified' = e.cb
               /\ activePromises' = Append(activePromises, nextBatch)
               /\ nextBatch' = nextBatch + 1
               /\ mainPc' = "for"
               /\ UNCHANGED awaitState
    /\ lastReturn' = NoReturn
    /\ UNCHANGED <<paragraphs, config, signalAborted, batches, abortPhase>>
    /\ UNCHANGED otherVars

\* The awaited promise has settled: the main function continues or throws.
MainResume ==
    /\ mainPc \in {"race", "all"}
    /\ awaitState \in {"fulfilled", "rejected"}
    /\ mainPc' = IF awaitState = "rejected" THEN "rejected"
                 ELSE IF mainPc = "race" THEN "while" ELSE "returned"
    /\ awaitState' = "none"
    /\ lastReturn' = NoReturn
    /\ UNCHANGED notified
    /\ UNCHANGED <<paragraphs, config, signalAborted, results, batches, nextBatch,
                   activePromises, task, accepted, abortPhase>>
    /\ UNCHANGED otherVars

\* A step of the task of batch b with effect e.
TaskStep(b, e) ==
    /\ task' = [task EXCEPT ![b] = e.t]
    /\ results' = e.res
    /\ accepted' = [accepted EXCEPT ![b] = e.acc]
    /\ awaitState' = IF e.t.pc = "rejected" THEN OnSettle("rejected", activePromises)
                     ELSE awaitState
    /\ lastReturn' = e.ret
    /\ notified' = e.cb
    /\ UNCHANGED <<paragraphs, config, signalAborted, mainPc, batches, nextBatch,
                   activePromises, abortPhase>>
    /\ UNCHANGED otherVars

\* A completion call of batch b returns.
CallReturns(b) ==
    /\ ~MainRunning
    /\ task[b].pc = "call"
    /\ \/ /\ task[b].path = "single"
          /\ \E r \in ReplyTexts(batches[b].texts[1]) :
                TaskStep(b, AfterTranslateBatch(b, task[b], <<r>>))
       \/ /\ task[b].path = "structured"
          /\ \E resp \in StructuredResponses(batches[b].texts) :
                TaskStep(b, AfterStructured(b, task[b], resp))
       \/ /\ task[b].path = "fallback"
          /\ \E r \in ReplyTexts(batches[b].texts[task[b].k]) :
                TaskStep(b, AfterFallbackCall(b, task[b], r))

\* A completion call of batch b fails: a transport error, or the AbortError of
\* the aborted signal.
CallFails(b) ==
    /\ ~MainRunning
    /\ task[b].pc = "call"
    /\ \E err \in TransportErrors \cup (IF Aborted THEN {AbortError} ELSE {}) :
          TaskStep(b, HandleError(b, task[b], err))

\* The retry timer of batch b fires.
TimerFires(b) ==
    /\ ~MainRunning
    /\ task[b].pc = "backoff"
    /\ TaskStep(b, StartAttempt(b, task[b]))

\* The .then callback of the promise of batch b: it removes the promise.
ThenCallback(b) ==
    /\ ~MainRunning
    /\ task[b].pc = "fulfilled"
    /\ \E j \in 1..Len(activePromises) : activePromises[j] = b
    /\ task' = [task EXCEPT ![b].pc = "done"]
    /\ activePromises' = RemovePromise(activePromises, b)
    /\ awaitState' = OnSettle("fulfilled", activePromises')
    /\ lastReturn' = NoReturn
    /\ UNCHANGED notified
    /\ UNCHANGED <<paragraphs, config, signalAborted, mainPc, results, batches,
                   nextBatch, accepted, abortPhase>>
    /\ UNCHANGED otherVars

\* controller.abort() is called by the owner of the signal.
Abort ==
    /\ ~MainRunning
    /\ ~signalAborted
    /\ signalAborted' = TRUE
    /\ abortPhase' = IF mainPc = "init" THEN "beforeStart"
                     ELSE IF mainPc \in {"race", "all"} /\ awaitState # "rejected"
                             /\ \E b \in BatchIds : ~Terminal(task[b])
                          THEN "unfinished"
                     ELSE "late"
    /\ lastReturn' = NoReturn
    /\ UNCHANGED notified
    /\ UNCHANGED <<paragraphs, config, mainPc, results, batches, nextBatch,
                   activePromises, task, awaitState, accepted>>
    /\ UNCHANGED otherVars

Next ==
    \/ Start
    \/ ForTop
    \/ WhileCheck
    \/ MainResume
    \/ \E b \in BatchIds : CallReturns(b)
    \/ \E b \in BatchIds : CallFails(b)
    \/ \E b \in BatchIds : TimerFires(b)
    \/ \E b \in BatchIds : ThenCallback(b)
    \/ Abort

\* -------------------------------------------------------------------- inputs
\* The texts of the modelled runs: paragraphs of one and of two characters.
Corpus == << <<"a">>, <<"b", "b">>, <<"c">>, <<"a">> >>

RunInputs == { SubSeq(Corpus, 1, n) : n \in 0..MaxParagraphs }

\* The configurations of the modelled runs: nothing set (the defaults apply),
\* or the count limit and the concurrency set.
RunConfigs ==
    { [maxParagraphsPerRequest |-> 0, maxTextLengthPerRequest |-> 0, concurrency |-> 0] }
        \cup [maxParagraphsPerRequest : 1..MaxCountCfg,
              maxTextLengthPerRequest : {0},
              concurrency : 1..MaxConcurrencyCfg]

InitCommon ==
    /\ signalAborted = FALSE
    /\ mainPc = "init"
    /\ results = <<>>
    /\ batches = <<>>
    /\ nextBatch = 1
    /\ activePromises = <<>>
    /\ task = <<>>
    /\ awaitState = "none"
    /\ accepted = <<>>
    /\ abortPhase = "none"
    /\ lastReturn = NoReturn
    /\ notified = <<>>
    /\ HandlerIdle

\* The other components, untouched by a translation run.
InitOther ==
    /\ aiConfigs = DEFAULT_AI_CONFIGS
    /\ InitCache
    /\ InitMatch

Init ==
    /\ paragraphs \in RunInputs
    /\ config \in RunConfigs
    /\ InitCommon
    /\ InitOther

Spec == Init /\ [][Next]_vars

\* The run translateArticle starts through translateParagraphs, for the AI
\* settings the user has saved.
InitArticle ==
    /\ paragraphs \in RunInputs
    /\ aiConfigs \in { GetAIConfigs(saved) : saved \in RunConfigs }
    /\ config = TranslateParagraphsConfig(aiConfigs)
    /\ InitCommon
    /\ InitCache
    /\ InitMatch

SpecArticle == InitArticle /\ [][Next]_vars

\* The cache store alone, with no translation run.
InitCacheOnly ==
    /\ paragraphs = <<>>
    /\ config = TranslateParagraphsConfig(DEFAULT_AI_CONFIGS)
    /\ InitCommon
    /\ aiConfigs = DEFAULT_AI_CONFIGS
    /\ \E file \in {Missing, Corrupt} : CacheAtStart(file)
    /\ InitMatch

SpecCache == InitCacheOnly /\ [][NextCache]_vars

\* injectCachedTranslations alone, over all small cached lists and pages.
InitMatchOnly ==
    /\ paragraphs = <<>>
    /\ config = TranslateParagraphsConfig(DEFAULT_AI_CONFIGS)
    /\ InitCommon
    /\ aiConfigs = DEFAULT_AI_CONFIGS
    /\ InitCache
    /\ aiTranslation \in ListsOf(CachedPairs)
    /\ pageTexts \in ListsOf(MatchCorpus)
    /\ injectPc = "idle"
    /\ inserted = <<>>
    /\ globalBlock = NoBlock
    /\ NoSimilarityCall

SpecMatch == InitMatchOnly /\ [][InjectCachedTranslations]_vars

\* calculateTextSimilarity alone, over all pairs of modelled texts.
InitSimilarity ==
    /\ paragraphs = <<>>
    /\ config = TranslateParagraphsConfig(DEFAULT_AI_CONFIGS)
    /\ InitCommon
    /\ aiConfigs = DEFAULT_AI_CONFIGS
    /\ InitCache
    /\ aiTranslation = <<>>
    /\ pageTexts = <<>>
    /\ injectPc = "idle"
    /\ inserted = <<>>
    /\ globalBlock = NoBlock
    /\ simText1 \in SimTexts
    /\ simText2 \in SimTexts
    /\ simScore = NoScore

SpecSimilarity == InitSimilarity /\ [][SimilarityCall]_vars

\* ArticleAIHandler alone: calls of translateArticle on an enabled AI
\* configuration, with the translation runs reduced to what they tell the
\* handler.
InitHandler ==
    /\ paragraphs = <<>>
    /\ config = TranslateParagraphsConfig(DEFAULT_AI_CONFIGS)
    /\ InitCommon
    /\ InitOther

SpecHandler == InitHandler /\ [][NextHandler]_vars

\* The planner alone, over all small inputs.
PlanTexts == { [i \in 1..n |-> "a"] : n \in 0..PlanMaxLen }
PlanInputs == UNION { [1..n -> PlanTexts] : n \in 0..PlanMaxParagraphs }
PlanConfigs ==
    [maxParagraphsPerRequest : 0..PlanMaxCount,
     maxTextLengthPerRequest : 0..PlanMaxChars,
     concurrency : {0}]

InitPlan ==
    /\ paragraphs \in PlanInputs
    /\ config \in PlanConfigs
    /\ InitCommon
    /\ InitOther

SpecPlan == InitPlan /\ [][Start]_vars

\* ==================================================================== claims
\* Batch tasks that have been dispatched and have not finished.
InFlight == { b \in BatchIds : task[b].pc \in {"call", "backoff"} }

\* The task of batch b has issued at least one completion request.
Requested(b) == task[b].pc # "queued" /\ task[b].outcome # "Skipped"

\* The step issues a new completion request for batch b.
NewRequest(b) ==
    /\ task'[b].pc = "call"
    /\ \/ task[b].pc # "call"
       \/ task'[b].path # task[b].path
       \/ task'[b].k # task[b].k

RECURSIVE SumLen(_)
SumLen(texts) == IF texts = <<>> THEN 0 ELSE StrLen(Head(texts)) + SumLen(Tail(texts))

\* C1: once the run has started, and at its return, the result container has
\* one entry per input paragraph, in input order, and entry i keeps
\* original = paragraphs[i]; only the translated values change.
C1_ResultShape ==
    mainPc # "init" =>
        /\ Len(results) = Len(paragraphs)
        /\ \A i \in 1..Len(paragraphs) : results[i].original = paragraphs[i]

C1_Witness ==
    /\ mainPc = "returned"
    /\ Len(paragraphs) >= 2
    /\ \A i \in 1..Len(results) : results[i].translated # EmptyStr

\* C2: the number of batch tasks dispatched and not yet finished never exceeds
\* the concurrency limit.
C2_ConcurrencyBound == Cardinality(InFlight) <= concurrency

C2_Witness ==
    /\ mainPc = "race"
    /\ Cardinality(InFlight) = concurrency
    /\ nextBatch <= Len(batches)

\* C3: when cancellation is signaled before the run starts, or while a planned
\* batch has not reached Succeeded or GivenUp, the run does not return a result
\* container.
C3_CancelledRunNeverReturns ==
    (abortPhase \in {"beforeStart", "unfinished"} /\ Len(paragraphs) > 0)
        => mainPc # "returned"

\* C4: when the signal is already aborted at the start of the run, no batch
\* task ever issues a completion request.
C4_NoRequestWhenAbortedAtStart ==
    abortPhase = "beforeStart" => \A b \in BatchIds : ~Requested(b)

C4_Witness ==
    /\ abortPhase = "beforeStart"
    /\ mainPc = "returned"
    /\ Len(batches) > 0

\* C5: the step in which a batch gives up (its retries are exhausted) leaves
\* translated = "" at every index of the batch and changes no entry of another
\* batch; the entries of a batch that has given up stay empty.
C5_GivenUpStoresEmpty ==
    [][\A b \in 1..Len(batches') :
          task'[b].outcome = "GivenUp" =>
              /\ \A k \in 1..Len(batches'[b].indices) :
                    results'[batches'[b].indices[k] + 1].translated = EmptyStr
              /\ (b \in BatchIds /\ task[b].outcome # "GivenUp") =>
                    /\ task[b].retryCount = maxRetries
                    /\ \A i \in 1..Len(results) :
                          (\A k \in 1..Len(batches[b].indices) : batches[b].indices[k] + 1 # i)
                              => results'[i] = results[i]]_vars

C5_Witness ==
    \E b \in BatchIds, c \in BatchIds :
        /\ task[b].outcome = "GivenUp"
        /\ task[c].outcome = "Succeeded"

\* C6: a run in which cancellation is never signaled never rejects.
C6_NoRejectWithoutCancel == mainPc = "rejected" => signalAborted

C8_SettledOnlyAfterDrain ==
    (abortPhase = "unfinished" /\ mainPc \in {"returned", "rejected"})
        => InFlight = {}

\* C9: in a returned run, every index of a batch that succeeded holds the text
\* the accepted attempt returned for it.
C9_ResultIsAcceptedText ==
    mainPc = "returned" =>
        \A b \in BatchIds :
            task[b].outcome = "Succeeded" =>
                \A k \in 1..Len(batches[b].indices) :
                    results[batches[b].indices[k] + 1].translated = accepted[b][k]

C9_Witness ==
    /\ mainPc = "returned"
    /\ Len(batches) >= 2
    /\ \A b \in BatchIds : task[b].outcome = "Succeeded"

\* C10: no planned batch has more than maxCount fragments, and none has a
\* cumulative length above maxChars unless it is a single fragment that is
\* itself longer than maxChars.
C10_BatchLimits ==
    mainPc # "init" =>
        \A b \in BatchIds :
            /\ Len(batches[b].indices) <= maxBatchSize
            /\ \/ SumLen(batches[b].texts) <= maxTextLen
               \/ Len(batches[b].indices) = 1 /\ StrLen(batches[b].texts[1]) > maxTextLen

C10_Witness ==
    /\ mainPc # "init"
    /\ \E b \in BatchIds :
          Len(batches[b].indices) = 1 /\ StrLen(batches[b].texts[1]) > maxTextLen
    /\ \E b \in BatchIds :
          /\ Len(batches[b].indices) = maxBatchSize
          /\ maxBatchSize >= 2
          /\ SumLen(batches[b].texts) = maxTextLen

\* The index lists of the batches bs, concatenated in batch order.
RECURSIVE ConcatIndices(_)
ConcatIndices(bs) ==
    IF bs = <<>> THEN <<>> ELSE Head(bs).indices \o ConcatIndices(Tail(bs))

\* C11: the index lists of the planned batches, concatenated in batch order,
\* are exactly 0, 1, ..., n-1 (no fragment dropped, duplicated or reordered),
\* and batch.texts[k] is the text of fragment batch.indices[k].
C11_PlanIsPartition ==
    mainPc # "init" =>
        /\ ConcatIndices(batches) = [i \in 1..Len(paragraphs) |-> i - 1]
        /\ \A b \in BatchIds :
              /\ Len(batches[b].texts) = Len(batches[b].indices)
              /\ \A k \in 1..Len(batches[b].indices) :
                    batches[b].texts[k] = paragraphs[batches[b].indices[k] + 1]

C11_Witness ==
    /\ mainPc # "init"
    /\ Len(batches) >= 2
    /\ \E b \in BatchIds : Len(batches[b].indices) >= 2
    /\ \E b \in BatchIds : Len(batches[b].indices) = 1
    /\ \E i, j \in 1..Len(paragraphs) : paragraphs[i] # paragraphs[j]

\* translateBatch returned for batch b in the last step, with a failure marker
\* in a text of the array.
MarkerAttempt(b) ==
    /\ lastReturn.b = b
    /\ \E k \in 1..Len(lastReturn.texts) : IsFailureMarker(lastReturn.texts[k])

\* C12: an attempt whose returned texts contain a failure marker fails as a
\* whole: the batch does not succeed by it, none of its texts is written, and
\* the batch is retried (it waits for its next attempt, or gives up when its
\* retries are exhausted).
C12_MarkerAttemptRetried ==
    \A b \in BatchIds :
        MarkerAttempt(b) =>
            /\ task[b].outcome # "Succeeded"
            /\ \A k \in 1..Len(batches[b].indices) :
                  results[batches[b].indices[k] + 1].translated = EmptyStr
            /\ task[b].pc = "backoff" \/ task[b].outcome = "GivenUp"

\* C13: with maxParagraphsPerRequest = 1 (set, or left to its default) every
\* planned batch has exactly one fragment, no batch is ever on the structured
\* or the fallback path, and an attempt issues no second completion request:
\* no step of a batch with a pending call issues another one, and the batch has
\* no pending call once translateBatch has returned.
C13_SingletonDirectCall ==
    [][maxBatchSize = 1 =>
          \A b \in 1..Len(batches') :
              /\ Len(batches'[b].indices) = 1
              /\ task'[b].path \in {"none", "single"}
              /\ (b \in BatchIds /\ task[b].pc = "call") => ~NewRequest(b)
              /\ lastReturn'.b = b => task'[b].pc # "call"]_vars

C13_Witness ==
    /\ maxBatchSize = 1
    /\ Len(batches) >= 2
    /\ \E b \in BatchIds :
          task[b].pc = "call" /\ task[b].path = "single" /\ task[b].retryCount > 0
    /\ \E b \in BatchIds : task[b].outcome = "Succeeded"

\* C14: whenever translateBatch returns, on any of its three paths, the array
\* has one text per input text and its k-th text is the reply to the k-th
\* input text.
C14_TranslateBatchAligned ==
    \A b \in BatchIds :
        lastReturn.b = b =>
            /\ lastReturn.path \in {"single", "structured", "fallback"}
            /\ Len(lastReturn.texts) = Len(batches[b].texts)
            /\ \A k \in 1..Len(lastReturn.texts) :
                  lastReturn.texts[k] \in ReplyTexts(batches[b].texts[k])

C14_Witness ==
    \E b \in BatchIds :
        /\ lastReturn.b = b
        /\ lastReturn.path = "fallback"
        /\ Len(lastReturn.texts) >= 2
        /\ lastReturn.texts[1] = Tr(batches[b].texts[1])
        /\ lastReturn.texts[2] = Tr(batches[b].texts[2])
        /\ batches[b].texts[1] # batches[b].texts[2]

\* The state of a batch in the retry policy's state machine.
BatchState(t) ==
    IF t.outcome \in {"Succeeded", "GivenUp"} THEN t.outcome
    ELSE IF t.pc = "queued" THEN "Pending"
    ELSE IF t.pc = "call" THEN "Attempting"
    ELSE IF t.pc = "backoff" THEN "Retrying"
    ELSE "Left"

\* The moves of the state machine (a batch may also stay where it is).
BatchMoves ==
    { <<"Pending", "Attempting">>,
      <<"Attempting", "Succeeded">>, <<"Attempting", "Retrying">>,
      <<"Attempting", "GivenUp">>, <<"Retrying", "Attempting">> }

\* C20: while no cancellation is signaled, a batch moves only along
\* Pending -> Attempting -> {Succeeded | Retrying -> Attempting | GivenUp}:
\* each of its first 20 failed attempts takes it to Retrying with the retry
\* count raised by one, the failure at retry count 20 (the 21st attempt) takes
\* it to GivenUp, and it never leaves Succeeded or GivenUp.
C20_BatchStateMachine ==
    [][~signalAborted' =>
          \A b \in BatchIds :
              LET from == BatchState(task[b])
                  to == BatchState(task'[b])
              IN  /\ from # to => <<from, to>> \in BatchMoves
                  /\ to = "Attempting" => task'[b].retryCount <= maxRetries
                  /\ <<from, to>> = <<"Attempting", "Retrying">> =>
                        /\ task'[b].retryCount = task[b].retryCount + 1
                        /\ task[b].retryCount < maxRetries
                  /\ <<from, to>> = <<"Attempting", "GivenUp">> =>
                        task[b].retryCount = maxRetries]_vars

\* C19: in an article translation run the configured options are the ones in
\* effect: the tasks in flight never exceed the configured concurrency, and
\* the plan is the one built with the configured maxParagraphsPerRequest and
\* maxTextLengthPerRequest.
C19_ConfiguredOptionsInEffect ==
    mainPc # "init" =>
        /\ Cardinality(InFlight) <= aiConfigs.concurrency
        /\ batches = CreateBatches(paragraphs, aiConfigs.maxParagraphsPerRequest,
                                   aiConfigs.maxTextLengthPerRequest)

\* C15: on an initialized store, getCache(id) returns an entry with
\* translation v right after saveTranslation(id, v), and keeps returning it
\* through every later step (a save on another item id, a save of another
\* field, a sweep of other entries, the passing of time) except another
\* saveTranslation of id and a clearOldCache call whose cutoff the entry of
\* id is older than.
C15_SaveThenGet ==
    [][cacheFilePath # NoPath =>
          \A id \in ItemIds :
              /\ \A v \in TranslationTexts :
                    SaveTranslation(id, v) =>
                        GetCache(id)' # Null /\ GetCache(id)'.translation = v
              /\ (GetCache(id) # Null /\ cacheFilePath' # NoPath) =>
                    \/ /\ GetCache(id)' # Null
                       /\ GetCache(id)'.translation = GetCache(id).translation
                    \/ \E v \in TranslationTexts : SaveTranslation(id, v)
                    \/ \E d \in DaysToKeep :
                          /\ ClearOldCache(d)
                          /\ cacheData[id].createdAt < now - d * DayMs]_vars

C15_Witness ==
    /\ GetCache("i1") # Null
    /\ GetCache("i2") # Null
    /\ GetCache("i1").translation = "t1"
    /\ GetCache("i2").translation = "t2"
    /\ GetCache("i1").createdAt < GetCache("i2").createdAt
    /\ GetCache("i2").createdAt < now

\* C16: after clearOldCache(0) on an initialized store getCache returns null
\* for every item id.
C16_ClearZeroEmptiesStore ==
    [][(cacheFilePath # NoPath /\ ClearOldCache(0)) =>
          \A id \in ItemIds : GetCache(id)' = Null]_vars

\* The originals of the cached pairs.
Originals == [i \in 1..Len(aiTranslation) |-> aiTranslation[i].original]

\* C17: when the fragment list of the page equals the originals of the cached
\* list, cached pair i is inserted at fragment i with similarity 1.0, for
\* every i, and no global block is appended.
C17_IdentityMatch ==
    (injectPc = "done" /\ Len(pageTexts) > 0 /\ Originals = pageTexts) =>
        /\ Len(inserted) = Len(pageTexts)
        /\ \A i \in 1..Len(inserted) :
              /\ inserted[i].pair = i - 1
              /\ inserted[i].index = i - 1
              /\ inserted[i].score.matches = inserted[i].score.len
              /\ inserted[i].translated = aiTranslation[i].translated
        /\ globalBlock = NoBlock

C17_Witness ==
    /\ injectPc = "done"
    /\ Originals = pageTexts
    /\ Len(pageTexts) >= 2
    /\ pageTexts[1] = <<"a", "b">>
    /\ pageTexts[2] \in {<<"a", "b">>, <<"a", "b", "c">>}
    /\ Len(inserted) = Len(pageTexts)

\* C18 as stated: for a cached list that is not empty, the global block is
\* appended exactly when no cached pair was inserted at a fragment.
C18_FallbackIffNoMatch ==
    (injectPc = "done" /\ Len(aiTranslation) > 0) =>
        (globalBlock # NoBlock <=> Len(inserted) = 0)

\* C18: the global block is appended exactly when no cached pair was inserted
\* at a fragment and some cached translation is not empty; it is then the
\* cached translations that are not empty, in list order.
C18_FallbackIffNoMatchAndText ==
    injectPc = "done" =>
        /\ globalBlock # NoBlock <=>
                /\ Len(inserted) = 0
                /\ \E i \in 1..Len(aiTranslation) : aiTranslation[i].translated # EmptyStr
        /\ globalBlock # NoBlock => globalBlock = AllTranslated(aiTranslation)

C18_Witness ==
    /\ injectPc = "done"
    /\ Len(pageTexts) > 0
    /\ Len(aiTranslation) >= 2
    /\ Len(inserted) = 0
    /\ globalBlock # NoBlock
    /\ \A i \in 1..Len(aiTranslation) : aiTranslation[i].translated # EmptyStr

\* The step is the one in which the task of batch b is cancelled: its pending
\* completion call rejects with the AbortError of the signal, or the abort
\* check at the top of the retry loop throws when its retry timer fires.
CancellationRaised(b) ==
    /\ signalAborted
    /\ \/ task[b].pc = "call" /\ TaskStep(b, HandleError(b, task[b], AbortError))
       \/ TimerFires(b)

\* C21: the step in which a batch task is cancelled ends the task as rejected
\* (the error leaves processBatch, the batch is neither Succeeded nor GivenUp),
\* with no backoff wait, no new request, no higher retry count and no write to
\* the result container; a rejected task never takes another step.
C21_CancellationNotRetried ==
    [][\A b \in BatchIds :
          /\ CancellationRaised(b) =>
                /\ task'[b].pc = "rejected"
                /\ task'[b].outcome = "none"
                /\ task'[b].retryCount <= task[b].retryCount
                /\ ~NewRequest(b)
                /\ results' = results
                /\ awaitState = "pending" => awaitState' = "rejected"
          /\ task[b].pc = "rejected" => task'[b] = task[b]]_vars

C21_Witness ==
    /\ mainPc = "rejected"
    /\ \E b \in BatchIds :
          /\ task[b].pc = "rejected"
          /\ Len(batches[b].indices) = 2
          /\ lastReturn.b = 0
          /\ \A k \in 1..2 : results[batches[b].indices[k] + 1].translated = EmptyStr

\* C22: a batch whose attempt fails once cancellation has been signaled does
\* not start a backoff wait, and no step issues a request after the signal.
C22_NoBackoffAfterCancel ==
    [][signalAborted =>
          \A b \in BatchIds :
              /\ ~(task[b].pc = "call" /\ task'[b].pc = "backoff")
              /\ ~NewRequest(b)]_vars

\* The result indices (1-based) of the fragments of batch b.
IndicesOf(b) == { batches[b].indices[k] + 1 : k \in 1..Len(batches[b].indices) }

\* C23: while the run is not cancelled, onParagraphTranslated has been called
\* exactly once for every fragment of a batch that is Succeeded or GivenUp
\* (from the step that writes the entries on, hence before the run returns),
\* and not at all for the fragments of the other batches.
C23_CallbackOncePerFragment ==
    (mainPc # "init" /\ ~signalAborted) =>
        \A b \in BatchIds : \A i \in IndicesOf(b) :
            Len(notified[i]) = (IF Terminal(task[b]) THEN 1 ELSE 0)

\* C24: a step that calls onParagraphTranslated calls it once per index, for
\* the indices of a batch that succeeds in that step, each with the text
\* translateBatch returned for that fragment, which is results[index].translated
\* after the step.
C24_CallbackCarriesIndexAndText ==
    [][mainPc # "init" =>
          \A i \in 1..Len(notified) :
              notified'[i] # notified[i] =>
                  /\ notified'[i] = Append(notified[i], results'[i].translated)
                  /\ \E b \in BatchIds : \E k \in 1..Len(batches[b].indices) :
                        /\ batches[b].indices[k] + 1 = i
                        /\ task[b].outcome # "Succeeded"
                        /\ task'[b].outcome = "Succeeded"
                        /\ lastReturn'.b = b
                        /\ results'[i].translated = lastReturn'.texts[k]]_vars

C24_Witness ==
    /\ Len(batches) >= 2
    /\ task[1].pc = "call"
    /\ task[1].retryCount > 0
    /\ task[2].outcome = "Succeeded"
    /\ notified[1] = <<>>
    /\ notified[2] = <<Tr(paragraphs[2])>>
    /\ lastReturn.b = 2

\* C25: an entry of the result container changes only in the step in which
\* its batch becomes Succeeded (then every entry of the batch holds the text
\* the validated attempt returned for it) or GivenUp (then every entry of the
\* batch is ""); a step in which an attempt of a batch fails or is cancelled
\* changes no entry.
C25_WritesOnlyOnCompletion ==
    [][mainPc # "init" =>
          /\ \A i \in 1..Len(results) :
                results'[i] # results[i] =>
                    \E b \in BatchIds :
                        /\ i \in IndicesOf(b)
                        /\ task[b].outcome = "none"
                        /\ \/ /\ task'[b].outcome = "Succeeded"
                              /\ lastReturn'.b = b
                              /\ FirstMarker(lastReturn'.texts) = 0
                              /\ \A k \in 1..Len(batches[b].indices) :
                                    results'[batches[b].indices[k] + 1].translated
                                        = lastReturn'.texts[k]
                           \/ /\ task'[b].outcome = "GivenUp"
                              /\ \A j \in IndicesOf(b) : results'[j].translated = EmptyStr
          /\ (\E b \in BatchIds :
                  /\ task[b].pc \in {"call", "backoff"}
                  /\ task'[b].pc \in {"backoff", "rejected"}
                  /\ task'[b] # task[b])
                => results' = results]_vars

C25_Witness ==
    \E b \in BatchIds :
        /\ Len(batches[b].indices) = 2
        /\ task[b].pc = "backoff"
        /\ lastReturn.b = b
        /\ lastReturn.texts[1] = Tr(batches[b].texts[1])
        /\ IsFailureMarker(lastReturn.texts[2])
        /\ \A j \in IndicesOf(b) : results[j].translated = EmptyStr

\* C26: the index sets of two different batches are disjoint, a step moves the
\* task of at most one batch, and the entries that step changes are all at
\* indices of that batch; an entry changes in no other step.
C26_DisjointWrites ==
    [][mainPc # "init" =>
          /\ \A b, c \in BatchIds : b # c => IndicesOf(b) \cap IndicesOf(c) = {}
          /\ \A b, c \in BatchIds :
                (task'[b] # task[b] /\ task'[c] # task[c]) => b = c
          /\ \A i \in 1..Len(results) :
                results'[i] # results[i] =>
                    \E b \in BatchIds : task'[b] # task[b] /\ i \in IndicesOf(b)]_vars

C26_Witness ==
    /\ Len(batches) = 2
    /\ task[2].pc = "done"
    /\ lastReturn.b = 1
    /\ task[1].outcome = "Succeeded"
    /\ results[1].translated = Tr(paragraphs[1])
    /\ results[2].translated = Tr(paragraphs[2])

\* The structured response resp passes the checks of translateBatch for batch b.
ValidArray(b, resp) == resp.kind = "array" /\ Len(resp.items) = Len(batches[b].texts)

\* C27: for a batch of several texts, (1) a structured response that is a
\* valid array is returned as it is, and any other one starts the fallback at
\* the first text without translateBatch returning; (2) the k-th fallback call
\* is for the k-th text, its reply is appended to the replies so far, the next
\* call is the (k+1)-th, and after the last one translateBatch returns the
\* replies in input order; (3) a failing call on either path ends the attempt
\* in the catch block of the retry loop: translateBatch does not return and
\* makes no further call.
C27_SequentialFallback ==
    [][\A b \in BatchIds :
          /\ (task[b].pc = "call" /\ task[b].path = "structured") =>
                \A resp \in StructuredResponses(batches[b].texts) :
                    TaskStep(b, AfterStructured(b, task[b], resp)) =>
                        IF ValidArray(b, resp)
                            THEN /\ lastReturn' = [b |-> b, texts |-> resp.items,
                                                   path |-> "structured"]
                                 /\ task'[b].pc # "call"
                            ELSE /\ lastReturn' = NoReturn
                                 /\ IF signalAborted
                                       THEN task'[b].pc = "rejected"
                                       ELSE /\ task'[b].pc = "call"
                                            /\ task'[b].path = "fallback"
                                            /\ task'[b].k = 1
                                            /\ task'[b].acc = <<>>
          /\ (task[b].pc = "call" /\ task[b].path = "fallback" /\ ~CallFails(b)
                    /\ task'[b] # task[b]) =>
                \E r \in ReplyTexts(batches[b].texts[task[b].k]) :
                    IF task[b].k < Len(batches[b].texts)
                        THEN /\ lastReturn' = NoReturn
                             /\ IF signalAborted
                                   THEN task'[b].pc = "rejected"
                                   ELSE /\ task'[b].pc = "call"
                                        /\ task'[b].path = "fallback"
                                        /\ task'[b].k = task[b].k + 1
                                        /\ task'[b].acc = Append(task[b].acc, r)
                        ELSE /\ lastReturn' = [b |-> b, texts |-> Append(task[b].acc, r),
                                               path |-> "fallback"]
                             /\ Len(lastReturn'.texts) = Len(batches[b].texts)
                             /\ task'[b].pc # "call"
          /\ (task[b].pc = "call" /\ task[b].path \in {"structured", "fallback"}
                    /\ CallFails(b)) =>
                /\ lastReturn' = NoReturn
                /\ task'[b].pc \in {"backoff", "rejected", "fulfilled"}
                /\ task'[b].pc = "fulfilled" => task'[b].outcome = "GivenUp"
                /\ task'[b].path = "none"]_vars

C27_Witness ==
    \E b \in BatchIds :
        /\ Len(batches[b].texts) = 2
        /\ task[b].pc = "call"
        /\ task[b].path = "fallback"
        /\ task[b].k = 2
        /\ task[b].acc = <<Tr(batches[b].texts[1])>>
        /\ task[b].retryCount > 0

\* min(1000 * 1.5^(k-1), 10000) for k = 1, 2, ..., as fractions: 1000, 1500,
\* 2250, 3375, 5062.5, 7593.75, and 10000 from the 7th retry on.
ExpectedWait(k) ==
    CASE k = 1 -> [num |-> 1000, den |-> 1]
      [] k = 2 -> [num |-> 1500, den |-> 1]
      [] k = 3 -> [num |-> 2250, den |-> 1]
      [] k = 4 -> [num |-> 3375, den |-> 1]
      [] k = 5 -> [num |-> 10125, den |-> 2]
      [] k = 6 -> [num |-> 30375, den |-> 4]
      [] OTHER -> [num |-> 10000, den |-> 1]

\* C28: the wait a batch starts after its k-th failed attempt is
\* min(1000 * 1.5^(k-1), 10000) ms; it is 1000 for k = 1, at least the wait
\* before it, and at most 10000.
C28_BackoffWait ==
    [][\A b \in BatchIds :
          (task[b].pc = "call" /\ task'[b].pc = "backoff") =>
              LET k == task'[b].retryCount
                  d == task'[b].delay
                  prev == task[b].delay
              IN  /\ k = task[b].retryCount + 1
                  /\ d.num * ExpectedWait(k).den = ExpectedWait(k).num * d.den
                  /\ k = 1 => (prev = NoDelay /\ d = [num |-> 1000, den |-> 1])
                  /\ d.num * prev.den >= prev.num * d.den
                  /\ d.num <= 10000 * d.den]_vars

C28_Witness ==
    \E b \in BatchIds :
        /\ task[b].pc = "backoff"
        /\ task[b].retryCount = 7
        /\ task[b].delay = [num |-> 10000, den |-> 1]

\* The fields the save operations set, and the values they are called with.
SavedFields == {"summary", "translation", "titleTranslation"}

ValuesOf(field) ==
    CASE field = "summary" -> SummaryTexts
      [] field = "translation" -> TranslationTexts
      [] field = "titleTranslation" -> TitleTexts

\* C29: on an initialized store, a save of field f of item id with value v
\* leaves an entry for id that has f = v, createdAt = Date.now() and
\* itemId = id, whose other two fields are what they were (undefined for an
\* entry that did not exist), and changes no entry of another item id.
C29_SaveIsUpsert ==
    [][cacheFilePath # NoPath =>
          \A f \in SavedFields : \A id \in ItemIds : \A v \in ValuesOf(f) :
              SaveField(f, id, v) =>
                  /\ DOMAIN cacheData' = DOMAIN cacheData \cup {id}
                  /\ cacheData'[id][f] = v
                  /\ cacheData'[id].createdAt = now
                  /\ cacheData'[id].itemId = id
                  /\ \A g \in SavedFields \ {f} :
                        cacheData'[id][g] = (IF id \in DOMAIN cacheData
                                                THEN cacheData[id][g] ELSE Undefined)
                  /\ \A o \in DOMAIN cacheData \ {id} : cacheData'[o] = cacheData[o]]_vars

C29_Witness ==
    /\ cacheFilePath # NoPath
    /\ DOMAIN cacheData = {"i1", "i2"}
    /\ cacheData["i1"].summary = "s"
    /\ cacheData["i1"].translation = "t1"
    /\ cacheData["i1"].titleTranslation = "h"
    /\ cacheData["i2"].summary = Undefined
    /\ cacheData["i2"].translation = "t2"
    /\ cacheData["i1"].createdAt > cacheData["i2"].createdAt

\* C30: on an initialized store, clearOldCache(d) removes exactly the entries
\* with createdAt < Date.now() - d days and leaves the others as they were;
\* and createdAt of an entry is the time of the last write of any of its
\* fields: a step that changes a field of an entry, or its createdAt, sets
\* createdAt to Date.now(). So an entry is removed only if its last write is
\* older than the cutoff.
C30_ClearRemovesExactlyOld ==
    [][cacheFilePath # NoPath =>
          /\ \A d \in DaysToKeep :
                ClearOldCache(d) =>
                    /\ DOMAIN cacheData' =
                          { id \in DOMAIN cacheData :
                                ~(cacheData[id].createdAt < now - d * DayMs) }
                    /\ \A id \in DOMAIN cacheData' : cacheData'[id] = cacheData[id]
          /\ \A id \in DOMAIN cacheData' :
                (id \notin DOMAIN cacheData \/ cacheData'[id] # cacheData[id]) =>
                    cacheData'[id].createdAt = now
          /\ \A id \in DOMAIN cacheData \ DOMAIN cacheData' :
                \/ cacheFilePath' = NoPath
                \/ \E d \in DaysToKeep :
                      /\ ClearOldCache(d)
                      /\ cacheData[id].createdAt < now - d * DayMs]_vars

C30_Witness ==
    /\ cacheFilePath # NoPath
    /\ cacheFile # Stringify(cacheData)
    /\ cacheFile # Missing
    /\ cacheFile # Corrupt
    /\ DOMAIN cacheFile.obj = {"i1", "i2"}
    /\ DOMAIN cacheData = {"i2"}
    /\ cacheData["i2"].createdAt = DayMs
    /\ now = DayMs + 1

\* getCache(id) of a store that a new process has initialized over the file.
GetAfterReopen(file, id) ==
    LET map == LoadCache(file, EmptyMap)
    IN  IF id \in DOMAIN map THEN map[id] ELSE Null

\* C31: on an initialized store every step that changes the map writes the
\* file (the write succeeds, or it is one more failed write); whenever the
\* last write has succeeded, a store re-initialized over the file returns for
\* every item id the entry getCache returns now; and initDB over a readable
\* file makes getCache return the entries of the file.
C31_FileHoldsMap ==
    [][/\ (cacheFilePath # NoPath /\ cacheFilePath' # NoPath /\ cacheData' # cacheData) =>
              \/ cacheFile' = Stringify(cacheData')
              \/ writeFailures' = writeFailures + 1
       /\ (cacheFilePath' # NoPath /\ cacheFile' = Stringify(cacheData')) =>
              \A id \in ItemIds : GetAfterReopen(cacheFile', id) = GetCache(id)'
       /\ (InitDB /\ cacheFile \notin {Missing, Corrupt}) =>
              \A id \in ItemIds :
                  GetCache(id)' = (IF id \in DOMAIN cacheFile.obj
                                      THEN Parse(cacheFile)[id] ELSE Null)]_vars

\* The store has been closed after writes that succeeded: the file holds two
\* entries, one of them with a title translation and one without a summary.
C31_Witness ==
    /\ cacheFilePath = NoPath
    /\ cacheFile \notin {Missing, Corrupt}
    /\ DOMAIN cacheFile.obj = ItemIds
    /\ "titleTranslation" \in DOMAIN cacheFile.obj["i1"]
    /\ "summary" \notin DOMAIN cacheFile.obj["i2"]
    /\ cacheFile.obj["i1"].createdAt # cacheFile.obj["i2"].createdAt

\* C32: initDB over a missing or a corrupt file leaves an initialized store
\* with an empty map; a save or a clearOldCache on an initialized store whose
\* write of the file fails still ends with the map updated (the saved field
\* set and createdAt refreshed, the old entries removed) and the store
\* initialized.
C32_IOErrorsContained ==
    [][/\ (InitDB /\ cacheFile \in {Missing, Corrupt}) =>
              /\ cacheFilePath' # NoPath
              /\ cacheData' = EmptyMap
              /\ \A id \in ItemIds : GetCache(id)' = Null
       /\ (cacheFilePath # NoPath /\ cacheFile' # Stringify(cacheData')) =>
              /\ \A f \in SavedFields : \A id \in ItemIds : \A v \in ValuesOf(f) :
                    SaveField(f, id, v) =>
                        /\ cacheFilePath' # NoPath
                        /\ GetCache(id)' # Null
                        /\ GetCache(id)'[f] = v
                        /\ GetCache(id)'.createdAt = now
              /\ \A d \in DaysToKeep :
                    ClearOldCache(d) =>
                        /\ cacheFilePath' # NoPath
                        /\ \A id \in DOMAIN cacheData' :
                              ~(cacheData'[id].createdAt < now - d * DayMs)]_vars

\* Started over a missing file, initialized, and a save whose write failed:
\* the file is still missing and the map has the saved entry.
C32_Witness ==
    /\ cacheFilePath # NoPath
    /\ cacheFile = Missing
    /\ writeFailures > 0
    /\ GetCache("i1") # Null
    /\ GetCache("i1").translation = "t1"

\* C39: while the store is not initialized getCache returns null for every
\* item id and the map is empty; no save and no clearOldCache changes the map
\* or the file (only initDB changes the map); and after initDB getCache
\* returns what the file held, so nothing of the dropped calls is visible.
C39_NoEffectBeforeInit ==
    [][cacheFilePath = NoPath =>
          /\ \A id \in ItemIds : GetCache(id) = Null
          /\ cacheData = EmptyMap
          /\ cacheFile' = cacheFile
          /\ cacheData' # cacheData => InitDB
          /\ \A f \in SavedFields : \A id \in ItemIds : \A v \in ValuesOf(f) :
                SaveField(f, id, v) => UNCHANGED cacheVars
          /\ \A d \in DaysToKeep : ClearOldCache(d) => UNCHANGED cacheVars
          /\ InitDB => \A id \in ItemIds : GetCache(id)' = GetAfterReopen(cacheFile, id)]_vars

\* The store of a new process before initDB, over a file that holds entries:
\* getCache returns null for them.
C39_Witness ==
    /\ cacheFilePath = NoPath
    /\ cacheFile \notin {Missing, Corrupt}
    /\ "i1" \in DOMAIN cacheFile.obj
    /\ GetCache("i1") = Null
    /\ now > cacheFile.obj["i1"].createdAt

\* The number of positions 1..n at which a and b hold the same character.
\* Every batch of the run has succeeded or given up.
AllBatchesTerminal ==
    \A b \in BatchIds : task[b].outcome \in {"Succeeded", "GivenUp"}

\* C35: no entry of a returned result container matches the failure-marker
\* pattern; when every batch has succeeded or given up, each entry is the text
\* of the attempt that passed the check or the empty string of a batch that
\* gave up.
C35_NoMarkerInResults ==
    mainPc = "returned" =>
        /\ \A i \in 1..Len(results) : ~IsFailureMarker(results[i].translated)
        /\ AllBatchesTerminal =>
              \A b \in BatchIds : \A k \in 1..Len(batches[b].indices) :
                  LET entry == results[batches[b].indices[k] + 1].translated IN
                  IF task[b].outcome = "Succeeded"
                     THEN entry = accepted[b][k] /\ ~IsFailureMarker(accepted[b][k])
                     ELSE entry = EmptyStr

\* A returned run in which one batch gave up and another succeeded.
C35_Witness ==
    /\ mainPc = "returned"
    /\ AllBatchesTerminal
    /\ \E b \in BatchIds : task[b].outcome = "GivenUp"
    /\ \E b \in BatchIds : task[b].outcome = "Succeeded"

\* C38: once the signal is aborted no step invokes the callback: the texts
\* handed to it stay as they are (a run started after the signal begins with
\* none).
C38_NoCallbackAfterCancel ==
    [][signalAborted =>
          IF mainPc = "init"
             THEN \A i \in 1..Len(notified') : notified'[i] = <<>>
             ELSE notified' = notified]_vars

\* After the signal, a batch whose attempt was in flight has succeeded and
\* written its entry, and the callback was not invoked for it.
C38_Witness ==
    /\ signalAborted
    /\ \E b \in BatchIds :
          /\ task[b].outcome = "Succeeded"
          /\ \A k \in 1..Len(batches[b].indices) :
                /\ results[batches[b].indices[k] + 1].translated = accepted[b][k]
                /\ accepted[b][k] # EmptyStr
                /\ notified[batches[b].indices[k] + 1] = <<>>

\* C36: starting translateArticle aborts the controller of the run before; at
\* most one run passes the check of item, controller and run id; and a step of
\* a run that does not pass it leaves aiTranslation, titleTranslation and
\* translationLoading alone and makes no save call.
C36_SupersededRunInert ==
    [][/\ \A r \in RunIds, elapsed \in {0, 1} :
              (TranslateArticle(r, elapsed) /\ translationAbort # 0) =>
                  translationAbort \in abortedControllers'
       /\ \A r, q \in RunIds : (IsCurrent(r) /\ IsCurrent(q)) => r = q
       /\ \A r \in RunIds :
              (~IsCurrent(r) /\ RunStep(r)) =>
                  /\ aiTranslation' = aiTranslation
                  /\ titleTranslation' = titleTranslation
                  /\ translationLoading' = translationLoading
                  /\ saveCall' = NoSaveCall]_vars

\* C37: a step of a run that sends the translation list to the store is taken
\* when no batch of that run is in flight, and the list sent has one pair for
\* every fragment of the run.
C37_SavedListIsComplete ==
    [][\A r \in RunIds :
          ((SpinnerDone(r) \/ \E resOk \in BOOLEAN : TitleDone(r, resOk))
              /\ saveCall'.field = "translation") =>
                  /\ runs[r].pending = {}
                  /\ Len(saveCall'.value) = runs[r].n
                  /\ \A i \in 1..Len(saveCall'.value) : IsPair(saveCall'.value[i])]_vars

\* The score of new fragment i (0-based) against cached pair p (0-based).
PairScore(p, i) == calculateTextSimilarity(pageTexts[i + 1], aiTranslation[p + 1].original)

\* Score s is at least score t, as fractions.
AtLeast(s, t) == s.matches * t.len >= t.matches * s.len

\* The fragments claimed by the pairs before pair p.
ClaimedBefore(p) ==
    { inserted[c].index : c \in { d \in 1..Len(inserted) : inserted[d].pair < p } }

\* The fragments pair p may still be assigned to, and those of them that reach
\* the threshold of 0.35.
Candidates(p) == { i \in 0..(Len(pageTexts) - 1) : i \notin ClaimedBefore(p) }

Eligible(p) ==
    { i \in Candidates(p) :
        PairScore(p, i).matches * 100 >= MatchThresholdPercent * PairScore(p, i).len }

\* The lowest index among the candidates of pair p with the highest score.
TopCandidate(p) ==
    CHOOSE i \in Candidates(p) :
        /\ \A j \in Candidates(p) : AtLeast(PairScore(p, i), PairScore(p, j))
        /\ \A j \in Candidates(p) :
              AtLeast(PairScore(p, j), PairScore(p, i)) => i <= j

\* C33: pairs are assigned in cache order, each to the unclaimed fragment with
\* the highest score (the lowest index among equal scores) when that score is
\* at least 0.35 and to none otherwise; no fragment is assigned to two pairs.
C33_GreedyAssignment ==
    (injectPc = "done" /\ Len(aiTranslation) > 0 /\ Len(pageTexts) > 0) =>
        /\ \A c, d \in 1..Len(inserted) :
              c < d => /\ inserted[c].pair < inserted[d].pair
                       /\ inserted[c].index # inserted[d].index
        /\ \A p \in 0..(Len(aiTranslation) - 1) :
              LET mine == { c \in 1..Len(inserted) : inserted[c].pair = p } IN
              IF Eligible(p) = {}
                 THEN mine = {}
                 ELSE \E c \in mine :
                          /\ mine = {c}
                          /\ inserted[c].index = TopCandidate(p)
                          /\ inserted[c].translated = aiTranslation[p + 1].translated

\* Two pairs were assigned; the second pair's best fragment had been claimed
\* by the first, and the first pair's fragment was the lower of two with the
\* same score.
C33_Witness ==
    /\ injectPc = "done"
    /\ Len(inserted) = 2
    /\ ~AtLeast(inserted[2].score, PairScore(inserted[2].pair, inserted[1].index))
    /\ \E j \in 0..(Len(pageTexts) - 1) :
          /\ j > inserted[1].index
          /\ AtLeast(PairScore(inserted[1].pair, j), inserted[1].score)

RECURSIVE EqualPositions(_, _, _)
EqualPositions(a, b, n) ==
    IF n = 0 THEN 0
    ELSE EqualPositions(a, b, n - 1) + (IF a[n] = b[n] THEN 1 ELSE 0)

\* The length the score is taken over: min(len(a), len(b), 100) of the
\* stripped texts.
ScoreLen(text1, text2) ==
    LET la == Len(Strip(text1))
        lb == Len(Strip(text2))
        m == IF la <= lb THEN la ELSE lb
    IN  IF m <= SimilarityWindow THEN m ELSE SimilarityWindow

\* The score is the count of equal positions over the first ScoreLen
\* characters of the stripped texts, divided by ScoreLen; it is the score of
\* the swapped arguments; it lies in [0, 1].
ScoreAsDefined ==
    LET n == ScoreLen(simText1, simText2)
        back == calculateTextSimilarity(simText2, simText1)
    IN  /\ n > 0 =>
              /\ simScore.len = n
              /\ simScore.matches = EqualPositions(Strip(simText1), Strip(simText2), n)
        /\ simScore.matches * back.len = back.matches * simScore.len
        /\ 0 <= simScore.matches
        /\ simScore.matches <= simScore.len

\* C34 as stated: the score is as defined, symmetric, in [0, 1], and 1.0
\* whenever the two texts are equal.
C34_SimilarityScore ==
    simScore # NoScore =>
        /\ ScoreAsDefined
        /\ simText1 = simText2 => simScore.matches = simScore.len

\* C34: the score is as defined, symmetric and in [0, 1]; it is 0 when one of
\* the stripped texts is empty, and 1.0 when the two texts are equal and their
\* stripped text is not empty.
C34_SimilarityScoreNonEmpty ==
    simScore # NoScore =>
        /\ ScoreAsDefined
        /\ ScoreLen(simText1, simText2) = 0 => simScore.matches = 0
        /\ (simText1 = simText2 /\ Strip(simText1) # <<>>) =>
              simScore.matches = simScore.len

\* Two texts longer than the window that differ only after it score 1.0.
C34_Witness ==
    /\ simScore # NoScore
    /\ simText1 = LongText("a")
    /\ simText2 = LongText("b")
    /\ simScore = [matches |-> 100, len |-> 100]

====
